---- MODULE Spec2Model ----
(***************************************************************************)
(* A model of the PAC-RF telemetry ingestion layer:                        *)
(*   - the fixed-capacity ring-buffer queue (src/src/common/queue_manager.c)*)
(*   - the MSB-first bit stream reader      (src/src/common/bit_parser.c)  *)
(*   - the NMEA sentence decoder            (src/src/common/nmea.c)        *)
(* and of the program around it: the GPS handler, the command dispatch,    *)
(* the remote command runner and the GUI's line routing.                   *)
(* Each C function is an operator translated from its body; each call of   *)
(* it is one action.  Variables that the C code does not hold (the record  *)
(* of the last call, the histories) are marked "observation".              *)
(***************************************************************************)
EXTENDS Integers, Sequences, FiniteSets, TLC

\* ------------------------------------------------------------------ bounds
MaxCap  == 3      \* largest capacity passed to queue_init
MaxEnq  == 4      \* successful enqueues observed per queue lifetime
BufBytes == 5     \* bytes in the buffer handed to bit_parser_init
SizeBits == 16    \* width of size_t in the model (the machine's is 32 or 64)
MaxSend == 8      \* records the producer sends to the consumer

\* ------------------------------------------------------- program constants
QUEUE_DATA_SIZE == 256      \* char data[256] of QueueItem
READ_MAX == 32              \* widest field bit_parser_read extracts

\* ----------------------------------------------------------------- state
VARIABLES
    Q,          \* the Queue struct: items (pointer), capacity, head, tail, count
    slots,      \* the storage q->items points to (slot i of C is slots[i+1])
    out_item,   \* the caller's QueueItem that queue_dequeue writes to
    ret,        \* return value of the last queue call (FALSE for a void one)
    logline,    \* the line the queue last handed to the logger
    op,         \* observation: the last queue function called
    args,       \* observation: the arguments of that call, the Queue pointer first
    lifecycle,  \* observation: "uninit", "live" or "destroyed"
    cap0,       \* observation: capacity given to the last successful queue_init
    enq_log,    \* observation: records of the successful enqueues, in order
    deq_log,    \* observation: records the successful dequeues returned, in order
    phase,      \* position of the fill-and-drain scenario ("free" outside it)
    fill_rets,  \* return values of the scenario's enqueues, in order
    drain_rets, \* return values of the scenario's dequeues, in order
    P,          \* the BitParser struct: data, bit_length, bit_pos
    value,      \* return value of the last bit parser call, a uint32_t
                \* (zero for a void one)
    bop,        \* observation: the last bit parser function called
    nbits,      \* observation: the num_bits passed to that call
    pos0,       \* observation: bit_pos when that call was made
    trip,       \* observation: the fields read back to back from a fresh
                \* reader, each as its num_bits bits, first bit first
    acc,        \* the nmea_info_t accumulator of handle_gps
    line,       \* observation: the last line given to nmea_parse_line
    nret,       \* what that call returned
    ppc,        \* where the producer is inside queue_enqueue ("idle" outside)
    cpc,        \* where the consumer is inside queue_dequeue ("idle" outside)
    preg,       \* the producer's copy of q->count, loaded for count++
    creg,       \* the consumer's copy of q->count, loaded for count--
    raced,      \* observation: a count was loaded while the other thread
                \* held a copy it had not yet stored back
    G,          \* the locals of handle_gps and where it is ("start", "config",
                \* "loop", "done"); as observations the arguments of its
                \* nmea_parse_line calls (parsed), the largest llen reached
                \* (peak) and the number of read() calls (reads)
    rx,         \* observation: the bytes read() has returned, in order
    stdout,     \* the lines the remote binary has printed, in order
    dispatched, \* observation: the dispatch_command calls made, each with
                \* its argument, the handlers it called and what it printed
    R,          \* run_cmd_internal: where it is, its two mode arguments and
                \* its return value
    sub,        \* the subprocess of popen(): its state, and as observations
                \* the bytes it has written and its wait status
    pipe,       \* the bytes written and not yet read by fgets
    fwd,        \* observation: what the runner has written to stdout or
                \* handed to the callback, in order
    g_handlers, \* the list of output handler entries, the head first
    W,          \* the worker threads: where each is, and its button
    idle_q,     \* the idle sources of the main loop: the GuiMsg posted and
                \* not yet dispatched, oldest first
    panes,      \* the terminal buffer, the log buffer and the status label
    applied,    \* observation: the messages gui_dispatch_to_main has
                \* applied, in order
    heap,       \* observation: the GuiMsg allocations not yet freed
    routed,     \* observation: the last line routed, the handler called
                \* with its argument, and the post_gui calls made
    actor       \* observation: the thread that took the last GUI step

qvars == <<Q, slots, out_item, ret, logline, op, args, lifecycle, cap0,
           enq_log, deq_log>>
fvars == <<phase, fill_rets, drain_rets>>
bvars == <<P, value, bop, nbits, pos0>>
tvars == <<trip>>
nvars == <<acc, line, nret>>
rvars == <<ppc, cpc, preg, creg, raced>>
gvars == <<G, rx, stdout>>
\* the variables of the program around the ingestion layer
cvars == <<dispatched>>
ivars == <<R, sub, pipe, fwd>>
uvars == <<g_handlers, W, idle_q, panes, applied, heap, routed, actor>>
hvars == <<gvars, cvars, ivars, uvars>>
\* the variables of the ingestion layer
coreVars == <<qvars, fvars, bvars, tvars, nvars, rvars>>
vars  == <<qvars, fvars, bvars, tvars, nvars, rvars, hvars>>

\* everything that is not the queue's, left alone by the queue's actions
notQueue == <<bvars, tvars, nvars, rvars, hvars>>

\* ------------------------------------------------------------ queue: data
NULL == "NULL"
QREF == "q"               \* the address of the one Queue object
QueuePtrs == {NULL, QREF}

\* the records the callers pass: two payloads, and lengths from none to all
\* of the payload buffer
Items ==
    { [data |-> "SampleData", length |-> 10],
      [data |-> "SampleData", length |-> 0],
      [data |-> "Other", length |-> QUEUE_DATA_SIZE] }

\* the content of memory nobody has written yet
Indeterminate == [data |-> "?", length |-> 0]

\* a pointer to a QueueItem: null, or the address of a record holding obj
NullItemPtr == [null |-> TRUE, obj |-> Indeterminate]
ItemPtr(i) == [null |-> FALSE, obj |-> i]
ItemPtrs == {NullItemPtr} \cup {ItemPtr(i) : i \in Items}

\* Q.items is "null", "heap" (the result of a successful malloc, the storage
\* being slots) or "wild" (whatever an uninitialized struct holds)

\* ------------------------------------------------- queue: status helpers
\* with the comparison one short of the capacity
queue_is_full_early(q) == q # NULL /\ Q.count + 1 >= Q.capacity
queue_is_full(q) == q # NULL /\ Q.count = Q.capacity

\* with the null test turned around
queue_is_empty_nonnull(q) == q # NULL /\ Q.count = 0
queue_is_empty(q) == q = NULL \/ Q.count = 0

\* ------------------------------------------------------ queue: queue_init
\* allocates: whether malloc returns non-NULL
\* with head, tail and count left as they were
queue_init_noreset(q, capacity, allocates) ==
    IF q = NULL \/ capacity = 0
    THEN ret' = FALSE /\ UNCHANGED <<Q, slots, logline>>
    ELSE IF ~allocates
    THEN /\ Q' = [Q EXCEPT !.items = "null"]
         /\ ret' = FALSE
         /\ UNCHANGED <<slots, logline>>
    ELSE /\ slots' = [i \in 1..capacity |-> Indeterminate]
         /\ Q' = [Q EXCEPT !.items = "heap", !.capacity = capacity]
         /\ logline' = <<"INFO", "Queue initialized successfully.">>
         /\ ret' = TRUE

queue_init(q, capacity, allocates) ==
    IF q = NULL \/ capacity = 0
    THEN ret' = FALSE /\ UNCHANGED <<Q, slots, logline>>
    ELSE IF ~allocates
    THEN /\ Q' = [Q EXCEPT !.items = "null"]
         /\ ret' = FALSE
         /\ UNCHANGED <<slots, logline>>
    ELSE /\ slots' = [i \in 1..capacity |-> Indeterminate]
         /\ Q' = [items |-> "heap", capacity |-> capacity,
                  head |-> 0, tail |-> 0, count |-> 0]
         /\ logline' = <<"INFO", "Queue initialized successfully.">>
         /\ ret' = TRUE

\* --------------------------------------------------- queue: queue_destroy
\* with head left where it was
queue_destroy_keephead(q) ==
    IF q = NULL \/ Q.items = "null"
    THEN UNCHANGED <<Q, slots, logline>>
    ELSE /\ slots' = <<>>
         /\ Q' = [items |-> "null", capacity |-> 0,
                  head |-> Q.head, tail |-> 0, count |-> 0]
         /\ logline' = <<"INFO", "Queue destroyed and memory freed.">>

queue_destroy(q) ==
    IF q = NULL \/ Q.items = "null"
    THEN UNCHANGED <<Q, slots, logline>>
    ELSE /\ slots' = <<>>
         /\ Q' = [items |-> "null", capacity |-> 0,
                  head |-> 0, tail |-> 0, count |-> 0]
         /\ logline' = <<"INFO", "Queue destroyed and memory freed.">>

\* --------------------------------------------------- queue: queue_enqueue
\* without the modulo on tail
queue_enqueue_nowrap(q, item) ==
    IF q = NULL \/ item.null
    THEN ret' = FALSE /\ UNCHANGED <<Q, slots, logline>>
    ELSE IF queue_is_full(q)
    THEN /\ logline' = <<"WARN", "Queue is full! Cannot enqueue new item.">>
         /\ ret' = FALSE
         /\ UNCHANGED <<Q, slots>>
    ELSE /\ slots' = [slots EXCEPT ![Q.tail + 1] = item.obj]
         /\ Q' = [Q EXCEPT !.tail = Q.tail + 1, !.count = Q.count + 1]
         /\ logline' = <<"INFO", "Item enqueued successfully.">>
         /\ ret' = TRUE

\* with the record copied into the tail slot before the full check
queue_enqueue_early(q, item) ==
    IF q = NULL \/ item.null
    THEN ret' = FALSE /\ UNCHANGED <<Q, slots, logline>>
    ELSE IF queue_is_full(q)
    THEN /\ slots' = [slots EXCEPT ![Q.tail + 1] = item.obj]
         /\ logline' = <<"WARN", "Queue is full! Cannot enqueue new item.">>
         /\ ret' = FALSE
         /\ UNCHANGED Q
    ELSE /\ slots' = [slots EXCEPT ![Q.tail + 1] = item.obj]
         /\ Q' = [Q EXCEPT !.tail = (Q.tail + 1) % Q.capacity,
                           !.count = Q.count + 1]
         /\ logline' = <<"INFO", "Item enqueued successfully.">>
         /\ ret' = TRUE

\* with the oldest record overwritten when the queue is full
queue_enqueue_overwrite(q, item) ==
    IF q = NULL \/ item.null
    THEN ret' = FALSE /\ UNCHANGED <<Q, slots, logline>>
    ELSE IF queue_is_full(q) /\ Q.capacity = 0
    THEN /\ logline' = <<"WARN", "Queue is full! Cannot enqueue new item.">>
         /\ ret' = FALSE
         /\ UNCHANGED <<Q, slots>>
    ELSE IF queue_is_full(q)
    THEN /\ slots' = [slots EXCEPT ![Q.tail + 1] = item.obj]
         /\ Q' = [Q EXCEPT !.tail = (Q.tail + 1) % Q.capacity,
                           !.head = (Q.head + 1) % Q.capacity]
         /\ logline' = <<"INFO", "Item enqueued successfully.">>
         /\ ret' = TRUE
    ELSE /\ slots' = [slots EXCEPT ![Q.tail + 1] = item.obj]
         /\ Q' = [Q EXCEPT !.tail = (Q.tail + 1) % Q.capacity,
                           !.count = Q.count + 1]
         /\ logline' = <<"INFO", "Item enqueued successfully.">>
         /\ ret' = TRUE

queue_enqueue(q, item) ==
    IF q = NULL \/ item.null
    THEN ret' = FALSE /\ UNCHANGED <<Q, slots, logline>>
    ELSE IF queue_is_full(q)
    THEN /\ logline' = <<"WARN", "Queue is full! Cannot enqueue new item.">>
         /\ ret' = FALSE
         /\ UNCHANGED <<Q, slots>>
    ELSE /\ slots' = [slots EXCEPT ![Q.tail + 1] = item.obj]
         /\ Q' = [Q EXCEPT !.tail = (Q.tail + 1) % Q.capacity,
                           !.count = Q.count + 1]
         /\ logline' = <<"INFO", "Item enqueued successfully.">>
         /\ ret' = TRUE

\* --------------------------------------------------- queue: queue_dequeue
\* out: whether the out_item pointer is non-NULL
\* with head left where it is
queue_dequeue_stuck(q, out) ==
    IF q = NULL \/ ~out
    THEN ret' = FALSE /\ UNCHANGED <<Q, slots, out_item, logline>>
    ELSE IF queue_is_empty(q)
    THEN /\ logline' = <<"WARN", "Queue is empty! Cannot dequeue.">>
         /\ ret' = FALSE
         /\ UNCHANGED <<Q, slots, out_item>>
    ELSE /\ out_item' = slots[Q.head + 1]
         /\ Q' = [Q EXCEPT !.count = Q.count - 1]
         /\ logline' = <<"INFO", "Item dequeued successfully.">>
         /\ ret' = TRUE
         /\ UNCHANGED slots

\* with the head slot copied out before the empty check
queue_dequeue_early(q, out) ==
    IF q = NULL \/ ~out
    THEN ret' = FALSE /\ UNCHANGED <<Q, slots, out_item, logline>>
    ELSE IF queue_is_empty(q)
    THEN /\ out_item' = IF Q.head + 1 \in DOMAIN slots
                        THEN slots[Q.head + 1] ELSE Indeterminate
         /\ logline' = <<"WARN", "Queue is empty! Cannot dequeue.">>
         /\ ret' = FALSE
         /\ UNCHANGED <<Q, slots>>
    ELSE /\ out_item' = slots[Q.head + 1]
         /\ Q' = [Q EXCEPT !.head = (Q.head + 1) % Q.capacity,
                           !.count = Q.count - 1]
         /\ logline' = <<"INFO", "Item dequeued successfully.">>
         /\ ret' = TRUE
         /\ UNCHANGED slots

\* without the modulo on head
queue_dequeue_nowrap(q, out) ==
    IF q = NULL \/ ~out
    THEN ret' = FALSE /\ UNCHANGED <<Q, slots, out_item, logline>>
    ELSE IF queue_is_empty(q)
    THEN /\ logline' = <<"WARN", "Queue is empty! Cannot dequeue.">>
         /\ ret' = FALSE
         /\ UNCHANGED <<Q, slots, out_item>>
    ELSE /\ out_item' = slots[Q.head + 1]
         /\ Q' = [Q EXCEPT !.head = Q.head + 1, !.count = Q.count - 1]
         /\ logline' = <<"INFO", "Item dequeued successfully.">>
         /\ ret' = TRUE
         /\ UNCHANGED slots

\* with count left as it was
queue_dequeue_nocount(q, out) ==
    IF q = NULL \/ ~out
    THEN ret' = FALSE /\ UNCHANGED <<Q, slots, out_item, logline>>
    ELSE IF queue_is_empty(q)
    THEN /\ logline' = <<"WARN", "Queue is empty! Cannot dequeue.">>
         /\ ret' = FALSE
         /\ UNCHANGED <<Q, slots, out_item>>
    ELSE /\ out_item' = slots[Q.head + 1]
         /\ Q' = [Q EXCEPT !.head = (Q.head + 1) % Q.capacity]
         /\ logline' = <<"INFO", "Item dequeued successfully.">>
         /\ ret' = TRUE
         /\ UNCHANGED slots

queue_dequeue(q, out) ==
    IF q = NULL \/ ~out
    THEN ret' = FALSE /\ UNCHANGED <<Q, slots, out_item, logline>>
    ELSE IF queue_is_empty(q)
    THEN /\ logline' = <<"WARN", "Queue is empty! Cannot dequeue.">>
         /\ ret' = FALSE
         /\ UNCHANGED <<Q, slots, out_item>>
    ELSE /\ out_item' = slots[Q.head + 1]
         /\ Q' = [Q EXCEPT !.head = (Q.head + 1) % Q.capacity,
                           !.count = Q.count - 1]
         /\ logline' = <<"INFO", "Item dequeued successfully.">>
         /\ ret' = TRUE
         /\ UNCHANGED slots

\* ------------------------------------------------ queue: queue_log_status
queue_log_status(q) ==
    /\ logline' = IF q = NULL
                  THEN <<"ERROR", "Queue is NULL.">>
                  ELSE <<"INFO", "Queue Status", Q.count, Q.capacity, Q.head, Q.tail>>
    /\ UNCHANGED <<Q, slots>>

\* ------------------------------------------------------- queue: the calls
\* the struct before any queue_init: zeroed (static storage, as main's
\* main_queue) or holding whatever the stack held
ZeroedQueue ==
    [items |-> "null", capacity |-> 0, head |-> 0, tail |-> 0, count |-> 0]
StackQueue ==
    [items |-> "wild", capacity |-> 1, head |-> 1, tail |-> 1, count |-> 1]
UninitQueues == {ZeroedQueue, StackQueue}

QueueInit ==
    /\ Q \in UninitQueues
    /\ slots = <<>>
    /\ out_item = Indeterminate
    /\ ret = FALSE
    /\ logline = <<>>
    /\ op = "none"
    /\ args = <<NULL>>
    /\ lifecycle = "uninit"
    /\ cap0 = 0
    /\ enq_log = <<>>
    /\ deq_log = <<>>

\* queue_init, on a struct that holds no storage
CallInit(q, capacity, allocates) ==
    /\ lifecycle # "live"
    /\ queue_init(q, capacity, allocates)
    /\ op' = "init"
    /\ args' = <<q, capacity, allocates>>
    /\ lifecycle' = IF ret' THEN "live" ELSE lifecycle
    /\ cap0' = IF ret' THEN capacity ELSE cap0
    /\ enq_log' = IF ret' THEN <<>> ELSE enq_log
    /\ deq_log' = IF ret' THEN <<>> ELSE deq_log
    /\ UNCHANGED out_item

\* the other functions are called once queue_init has been
CallDestroy(q) ==
    /\ lifecycle # "uninit"
    /\ queue_destroy(q)
    /\ ret' = FALSE
    /\ op' = "destroy"
    /\ args' = <<q>>
    /\ lifecycle' = IF Q'.items = "null" THEN "destroyed" ELSE lifecycle
    /\ enq_log' = IF Q'.items = "null" THEN <<>> ELSE enq_log
    /\ deq_log' = IF Q'.items = "null" THEN <<>> ELSE deq_log
    /\ UNCHANGED <<out_item, cap0>>

CallEnqueue(q, item) ==
    /\ lifecycle # "uninit"
    /\ queue_enqueue(q, item)
    /\ op' = "enqueue"
    /\ args' = <<q, item>>
    /\ enq_log' = IF ret' THEN Append(enq_log, item.obj) ELSE enq_log
    /\ UNCHANGED <<out_item, lifecycle, cap0, deq_log>>

CallDequeue(q, out) ==
    /\ lifecycle # "uninit"
    /\ queue_dequeue(q, out)
    /\ op' = "dequeue"
    /\ args' = <<q, out>>
    /\ deq_log' = IF ret' THEN Append(deq_log, out_item') ELSE deq_log
    /\ UNCHANGED <<lifecycle, cap0, enq_log>>

CallIsFull(q) ==
    /\ lifecycle # "uninit"
    /\ ret' = queue_is_full(q)
    /\ op' = "is_full"
    /\ args' = <<q>>
    /\ UNCHANGED <<Q, slots, out_item, logline, lifecycle, cap0, enq_log, deq_log>>

CallIsEmpty(q) ==
    /\ lifecycle # "uninit"
    /\ ret' = queue_is_empty(q)
    /\ op' = "is_empty"
    /\ args' = <<q>>
    /\ UNCHANGED <<Q, slots, out_item, logline, lifecycle, cap0, enq_log, deq_log>>

CallLogStatus(q) ==
    /\ lifecycle # "uninit"
    /\ queue_log_status(q)
    /\ ret' = FALSE
    /\ op' = "log_status"
    /\ args' = <<q>>
    /\ UNCHANGED <<out_item, lifecycle, cap0, enq_log, deq_log>>

\* ------------------------------------------ the queue under arbitrary calls
Capacities == 0..MaxCap

DoInit ==
    /\ \E q \in QueuePtrs, c \in Capacities, a \in BOOLEAN : CallInit(q, c, a)
    /\ UNCHANGED <<fvars, notQueue>>

DoDestroy ==
    /\ \E q \in QueuePtrs : CallDestroy(q)
    /\ UNCHANGED <<fvars, notQueue>>

DoEnqueue ==
    /\ \E q \in QueuePtrs, item \in ItemPtrs :
          /\ Len(enq_log) < MaxEnq \/ q = NULL \/ item.null \/ queue_is_full(q)
          /\ CallEnqueue(q, item)
    /\ UNCHANGED <<fvars, notQueue>>

DoDequeue ==
    /\ \E q \in QueuePtrs, out \in BOOLEAN : CallDequeue(q, out)
    /\ UNCHANGED <<fvars, notQueue>>

DoIsFull ==
    /\ \E q \in QueuePtrs : CallIsFull(q)
    /\ UNCHANGED <<fvars, notQueue>>

DoIsEmpty ==
    /\ \E q \in QueuePtrs : CallIsEmpty(q)
    /\ UNCHANGED <<fvars, notQueue>>

DoLogStatus ==
    /\ \E q \in QueuePtrs : CallLogStatus(q)
    /\ UNCHANGED <<fvars, notQueue>>

\* ------------------------------------- the queue filled up and drained
\* queue_init(c), c + 1 enqueues, c dequeues, queue_is_empty
FillCreate ==
    /\ phase = "create"
    /\ \E c \in 1..MaxCap, a \in BOOLEAN : CallInit(QREF, c, a)
    /\ phase' = IF ret' THEN "fill" ELSE "create"
    /\ UNCHANGED <<fill_rets, drain_rets, notQueue>>

FillEnqueue ==
    /\ phase = "fill"
    /\ \E i \in Items : CallEnqueue(QREF, ItemPtr(i))
    /\ fill_rets' = Append(fill_rets, ret')
    /\ phase' = IF Len(fill_rets') = cap0 + 1 THEN "drain" ELSE "fill"
    /\ UNCHANGED <<drain_rets, notQueue>>

FillDequeue ==
    /\ phase = "drain"
    /\ CallDequeue(QREF, TRUE)
    /\ drain_rets' = Append(drain_rets, ret')
    /\ phase' = IF Len(drain_rets') = cap0 THEN "report" ELSE "drain"
    /\ UNCHANGED <<fill_rets, notQueue>>

FillReport ==
    /\ phase = "report"
    /\ CallIsEmpty(QREF)
    /\ phase' = "done"
    /\ UNCHANGED <<fill_rets, drain_rets, notQueue>>

\* ------------------------------- a refused call, and the call after it
\* queue_init(c); c enqueues; one more enqueue; a dequeue; an enqueue;
\* c dequeues; one more dequeue; an enqueue; a dequeue.  The enqueues'
\* return values go to fill_rets, the dequeues' to drain_rets.
BackEnqueue(from, to, last) ==
    /\ phase = from
    /\ \E i \in Items : CallEnqueue(QREF, ItemPtr(i))
    /\ fill_rets' = Append(fill_rets, ret')
    /\ phase' = IF Len(fill_rets') = last THEN to ELSE from
    /\ UNCHANGED <<drain_rets, notQueue>>

BackDequeue(from, to, last) ==
    /\ phase = from
    /\ CallDequeue(QREF, TRUE)
    /\ drain_rets' = Append(drain_rets, ret')
    /\ phase' = IF Len(drain_rets') = last THEN to ELSE from
    /\ UNCHANGED <<fill_rets, notQueue>>

BackCreate ==
    /\ phase = "b_create"
    /\ \E c \in 1..MaxCap : CallInit(QREF, c, TRUE)
    /\ phase' = "b_fill"
    /\ UNCHANGED <<fill_rets, drain_rets, notQueue>>

BackFill    == BackEnqueue("b_fill", "b_refused", cap0)
BackRefused == BackEnqueue("b_refused", "b_free", cap0 + 1)
BackFree    == BackDequeue("b_free", "b_retry", 1)
BackRetry   == BackEnqueue("b_retry", "b_drain", cap0 + 2)
BackDrain   == BackDequeue("b_drain", "b_starved", cap0 + 1)
BackStarved == BackDequeue("b_starved", "b_feed", cap0 + 2)
BackFeed    == BackEnqueue("b_feed", "b_take", cap0 + 3)
BackTake    == BackDequeue("b_take", "b_done", cap0 + 3)

\* ---------------------- one producer and one consumer, calls serialized
\* the k-th record the producer sends; the records differ in their length
Record(k) == [data |-> "SampleData", length |-> k]

\* the queue right after queue_init(q, c) has returned true
QueueCreated(c) ==
    /\ Q = [items |-> "heap", capacity |-> c,
            head |-> 0, tail |-> 0, count |-> 0]
    /\ slots = [i \in 1..c |-> Indeterminate]
    /\ out_item = Indeterminate
    /\ ret = TRUE
    /\ logline = <<"INFO", "Queue initialized successfully.">>
    /\ op = "init"
    /\ args = <<QREF, c, TRUE>>
    /\ lifecycle = "live"
    /\ cap0 = c
    /\ enq_log = <<>>
    /\ deq_log = <<>>

\* the producer offers its next record, again after a refusal
ProducerEnqueue ==
    /\ Len(enq_log) < MaxSend
    /\ CallEnqueue(QREF, ItemPtr(Record(Len(enq_log) + 1)))
    /\ UNCHANGED <<fvars, notQueue>>

\* the consumer asks for a record
ConsumerDequeue ==
    /\ CallDequeue(QREF, TRUE)
    /\ UNCHANGED <<fvars, notQueue>>

\* ------------- one producer and one consumer, calls not serialized
\* Each thread runs its function one memory access at a time; q->count++
\* and q->count-- are a load and a store.  The steps of queue_enqueue:
\* the tests (lines 44-45), the copy into the tail slot (51), the tail
\* update (52), the load and the store of count (53) with the log call and
\* the return.
RaceIdle ==
    /\ ppc = "idle"
    /\ cpc = "idle"
    /\ preg = 0
    /\ creg = 0
    /\ raced = FALSE

\* what neither thread's steps touch
raceFrame == <<lifecycle, cap0, fvars, bvars, tvars, nvars, hvars>>

ProducerCheck ==
    /\ ppc = "idle"
    /\ Len(enq_log) < MaxEnq
    /\ op' = "enqueue"
    /\ args' = <<QREF, ItemPtr(Record(Len(enq_log) + 1))>>
    /\ IF queue_is_full(QREF)
       THEN /\ logline' = <<"WARN", "Queue is full! Cannot enqueue new item.">>
            /\ ret' = FALSE
            /\ UNCHANGED ppc
       ELSE /\ ppc' = "copy"
            /\ UNCHANGED <<logline, ret>>
    /\ UNCHANGED <<Q, slots, out_item, enq_log, deq_log,
                   cpc, preg, creg, raced, raceFrame>>

ProducerCopy ==
    /\ ppc = "copy"
    /\ slots' = [slots EXCEPT ![Q.tail + 1] = Record(Len(enq_log) + 1)]
    /\ ppc' = "tail"
    /\ UNCHANGED <<Q, out_item, ret, logline, op, args, enq_log, deq_log,
                   cpc, preg, creg, raced, raceFrame>>

ProducerTail ==
    /\ ppc = "tail"
    /\ Q' = [Q EXCEPT !.tail = (Q.tail + 1) % Q.capacity]
    /\ ppc' = "load"
    /\ UNCHANGED <<slots, out_item, ret, logline, op, args, enq_log, deq_log,
                   cpc, preg, creg, raced, raceFrame>>

ProducerLoad ==
    /\ ppc = "load"
    /\ preg' = Q.count
    /\ raced' = (raced \/ cpc = "store")
    /\ ppc' = "store"
    /\ UNCHANGED <<Q, slots, out_item, ret, logline, op, args, enq_log,
                   deq_log, cpc, creg, raceFrame>>

\* without the store
ProducerStore_forget ==
    /\ ppc = "store"
    /\ logline' = <<"INFO", "Item enqueued successfully.">>
    /\ ret' = TRUE
    /\ enq_log' = Append(enq_log, Record(Len(enq_log) + 1))
    /\ ppc' = "idle"
    /\ UNCHANGED <<Q, slots, out_item, op, args, deq_log,
                   cpc, preg, creg, raced, raceFrame>>

ProducerStore ==
    /\ ppc = "store"
    /\ Q' = [Q EXCEPT !.count = preg + 1]
    /\ logline' = <<"INFO", "Item enqueued successfully.">>
    /\ ret' = TRUE
    /\ enq_log' = Append(enq_log, Record(Len(enq_log) + 1))
    /\ ppc' = "idle"
    /\ UNCHANGED <<slots, out_item, op, args, deq_log,
                   cpc, preg, creg, raced, raceFrame>>

\* the steps of queue_dequeue: the tests (lines 63-64), the copy out of the
\* head slot (70), the head update (71), the load and the store of count
\* (72) with the log call and the return
ConsumerCheck ==
    /\ cpc = "idle"
    /\ op' = "dequeue"
    /\ args' = <<QREF, TRUE>>
    /\ IF queue_is_empty(QREF)
       THEN /\ logline' = <<"WARN", "Queue is empty! Cannot dequeue.">>
            /\ ret' = FALSE
            /\ UNCHANGED cpc
       ELSE /\ cpc' = "copy"
            /\ UNCHANGED <<logline, ret>>
    /\ UNCHANGED <<Q, slots, out_item, enq_log, deq_log,
                   ppc, preg, creg, raced, raceFrame>>

ConsumerCopy ==
    /\ cpc = "copy"
    /\ out_item' = slots[Q.head + 1]
    /\ cpc' = "head"
    /\ UNCHANGED <<Q, slots, ret, logline, op, args, enq_log, deq_log,
                   ppc, preg, creg, raced, raceFrame>>

ConsumerHead ==
    /\ cpc = "head"
    /\ Q' = [Q EXCEPT !.head = (Q.head + 1) % Q.capacity]
    /\ cpc' = "load"
    /\ UNCHANGED <<slots, out_item, ret, logline, op, args, enq_log, deq_log,
                   ppc, preg, creg, raced, raceFrame>>

ConsumerLoad ==
    /\ cpc = "load"
    /\ creg' = Q.count
    /\ raced' = (raced \/ ppc = "store")
    /\ cpc' = "store"
    /\ UNCHANGED <<Q, slots, out_item, ret, logline, op, args, enq_log,
                   deq_log, ppc, preg, raceFrame>>

ConsumerStore ==
    /\ cpc = "store"
    /\ Q' = [Q EXCEPT !.count = (creg + 2 ^ SizeBits - 1) % (2 ^ SizeBits)]
    /\ logline' = <<"INFO", "Item dequeued successfully.">>
    /\ ret' = TRUE
    /\ deq_log' = Append(deq_log, out_item)
    /\ cpc' = "idle"
    /\ UNCHANGED <<slots, out_item, op, args, enq_log,
                   ppc, preg, creg, raced, raceFrame>>

\* ======================================================== the bit parser
\* size_t arithmetic
SizeMod == 2 ^ SizeBits
SizeAdd(a, b) == (a + b) % SizeMod

\* a uint32_t, held as its two 16-bit halves
HalfMod == 2 ^ 16
U32Zero == [hi |-> 0, lo |-> 0]
\* with a 16-bit accumulator
ShlOr_short(v, bit) == [hi |-> 0, lo |-> (v.lo * 2 + bit) % HalfMod]

\* (v << 1) | bit, in 32 bits
ShlOr(v, bit) == [hi |-> (v.hi * 2 + v.lo \div (HalfMod \div 2)) % HalfMod,
                  lo |-> (v.lo * 2 + bit) % HalfMod]

\* the buffers a caller hands over: bytes A7 2C A7 2C ... and their
\* complement 58 D3 58 D3 ..., none of them equal to its own bit reversal
Buffers ==
    { [i \in 1..BufBytes |-> IF i % 2 = 1 THEN 167 ELSE 44],
      [i \in 1..BufBytes |-> IF i % 2 = 1 THEN 88 ELSE 211] }

\* bit_parser_init(parser, data, bit_length)
bit_parser_init(data, bit_length) ==
    [data |-> data, bit_length |-> bit_length, bit_pos |-> 0]

\* with the bits of a byte numbered from the least significant one
ExtractBit_lsb(data, pos, i) ==
    LET byte_idx == SizeAdd(pos, i) \div 8
        bit_idx  == SizeAdd(pos, i) % 8
    IN  (data[byte_idx + 1] \div (2 ^ bit_idx)) % 2

\* one pass of the extraction loop of bit_parser_read
ExtractBit(data, pos, i) ==
    LET byte_idx == SizeAdd(pos, i) \div 8
        bit_idx  == 7 - (SizeAdd(pos, i) % 8)
    IN  (data[byte_idx + 1] \div (2 ^ bit_idx)) % 2

\* the loop: for (i = 0; i < num_bits; i++) value = (value << 1) | bit
RECURSIVE ReadLoop(_, _, _, _, _)
ReadLoop(data, pos, num_bits, i, v) ==
    IF i < num_bits
    THEN ReadLoop(data, pos, num_bits, i + 1, ShlOr(v, ExtractBit(data, pos, i)))
    ELSE v

\* with the cursor left where it was
bit_parser_read_stay(num_bits) ==
    IF num_bits = 0 \/ num_bits > READ_MAX
    THEN value' = U32Zero /\ UNCHANGED P
    ELSE IF SizeAdd(P.bit_pos, num_bits) > P.bit_length
    THEN value' = U32Zero /\ UNCHANGED P
    ELSE /\ value' = ReadLoop(P.data, P.bit_pos, num_bits, 0, U32Zero)
         /\ UNCHANGED P

\* with a read beyond the stream moving the cursor to the end
bit_parser_read_clamp(num_bits) ==
    IF num_bits = 0 \/ num_bits > READ_MAX
    THEN value' = U32Zero /\ UNCHANGED P
    ELSE IF SizeAdd(P.bit_pos, num_bits) > P.bit_length
    THEN value' = U32Zero /\ P' = [P EXCEPT !.bit_pos = P.bit_length]
    ELSE /\ value' = ReadLoop(P.data, P.bit_pos, num_bits, 0, U32Zero)
         /\ P' = [P EXCEPT !.bit_pos = SizeAdd(P.bit_pos, num_bits)]

bit_parser_read(num_bits) ==
    IF num_bits = 0 \/ num_bits > READ_MAX
    THEN value' = U32Zero /\ UNCHANGED P
    ELSE IF SizeAdd(P.bit_pos, num_bits) > P.bit_length
    THEN value' = U32Zero /\ UNCHANGED P
    ELSE /\ value' = ReadLoop(P.data, P.bit_pos, num_bits, 0, U32Zero)
         /\ P' = [P EXCEPT !.bit_pos = SizeAdd(P.bit_pos, num_bits)]

\* without the clamp
bit_parser_skip_noclamp(num_bits) ==
    P' = [P EXCEPT !.bit_pos = SizeAdd(P.bit_pos, num_bits)]

bit_parser_skip(num_bits) ==
    IF SizeAdd(P.bit_pos, num_bits) <= P.bit_length
    THEN P' = [P EXCEPT !.bit_pos = SizeAdd(P.bit_pos, num_bits)]
    ELSE P' = [P EXCEPT !.bit_pos = P.bit_length]

\* with the whole struct cleared
bit_parser_reset_clear ==
    P' = [P EXCEPT !.bit_pos = 0, !.bit_length = 0]

bit_parser_reset ==
    P' = [P EXCEPT !.bit_pos = 0]

\* the num_bits values the callers pass
ReadArgs == 0..(READ_MAX + 2) \cup {SizeMod - 8, SizeMod - 1}
SkipArgs == {0, 1, 7, 8, 9, 8 * BufBytes, 8 * BufBytes + 1,
             SizeMod - 8, SizeMod - 1}

\* the bit lengths the callers pass: an empty stream, and every length that
\* ends in the buffer's last byte
BitLengths == {0} \cup (8 * (BufBytes - 1) + 1)..(8 * BufBytes)

BitsInit ==
    /\ \E data \in Buffers, bit_length \in BitLengths :
          P = bit_parser_init(data, bit_length)
    /\ value = U32Zero
    /\ bop = "init"
    /\ nbits = 0
    /\ pos0 = 0

\* everything that is not the bit parser's
notBits == <<qvars, fvars, tvars, nvars, rvars, hvars>>
notNmea == <<qvars, fvars, bvars, tvars, rvars, hvars>>

DoRead ==
    /\ \E n \in ReadArgs :
          /\ bit_parser_read(n)
          /\ nbits' = n
    /\ bop' = "read"
    /\ pos0' = P.bit_pos
    /\ UNCHANGED notBits

DoSkip ==
    /\ \E n \in SkipArgs :
          /\ bit_parser_skip(n)
          /\ nbits' = n
    /\ value' = U32Zero
    /\ bop' = "skip"
    /\ pos0' = P.bit_pos
    /\ UNCHANGED notBits

DoReset ==
    /\ bit_parser_reset
    /\ value' = U32Zero
    /\ nbits' = 0
    /\ bop' = "reset"
    /\ pos0' = P.bit_pos
    /\ UNCHANGED notBits

\* ------------------------------ the whole stream read field by field
\* the num_bits bits of a returned value, most significant first
BigEndian(v, n) ==
    [k \in 1..n |->
        IF n - k < 16 THEN (v.lo \div (2 ^ (n - k))) % 2
        ELSE (v.hi \div (2 ^ (n - k - 16))) % 2]

\* one more field of a width that the rest of the stream can hold
TripRead ==
    /\ \E n \in 1..READ_MAX :
          /\ P.bit_pos + n <= P.bit_length
          /\ bit_parser_read(n)
          /\ nbits' = n
          /\ trip' = trip \o BigEndian(value', n)
    /\ bop' = "read"
    /\ pos0' = P.bit_pos
    /\ UNCHANGED <<qvars, fvars, nvars, rvars, hvars>>

\* ========================================================= the NMEA decoder
\* A C string is the sequence of its characters, each a one-character
\* string; the terminating NUL is the end of the sequence and has code 0.
\* The caller (handle_gps) passes a non-null line and a non-null accumulator.

\* size of the decoder's copy of the line
NMEA_BUF == 256
\* size of the field table f[]
NMEA_FIELDS == 16
\* size of time_utc
TIME_UTC_SIZE == 16

\* the code of every character of the input lines
Code ==
    ("$" :> 36) @@ ("*" :> 42) @@ ("," :> 44) @@ ("." :> 46) @@ ("0" :> 48)
    @@ ("1" :> 49) @@ ("2" :> 50) @@ ("3" :> 51) @@ ("4" :> 52) @@ ("5" :>
    53) @@ ("6" :> 54) @@ ("7" :> 55) @@ ("8" :> 56) @@ ("9" :> 57) @@ ("A"
    :> 65) @@ ("B" :> 66) @@ ("C" :> 67) @@ ("D" :> 68) @@ ("E" :> 69) @@
    ("F" :> 70) @@ ("G" :> 71) @@ ("M" :> 77) @@ ("N" :> 78) @@ ("P" :> 80)
    @@ ("R" :> 82) @@ ("S" :> 83) @@ ("V" :> 86) @@ ("W" :> 87) @@ ("Z" :>
    90) @@ ("a" :> 97) @@ ("b" :> 98) @@ ("c" :> 99) @@ ("d" :> 100) @@ ("e"
    :> 101) @@ ("f" :> 102)

\* a fix-data sentence with a fix: $GPGGA,123519,4807.038,N,01131.000,E,1,08,0.9,545.4,M,46.9,M,,*47
GGA_FIX ==
    <<"$", "G", "P", "G", "G", "A", ",", "1", "2", "3", "5", "1", "9", ",",
    "4", "8", "0", "7", ".", "0", "3", "8", ",", "N", ",", "0", "1", "1",
    "3", "1", ".", "0", "0", "0", ",", "E", ",", "1", ",", "0", "8", ",",
    "0", ".", "9", ",", "5", "4", "5", ".", "4", ",", "M", ",", "4", "6",
    ".", "9", ",", "M", ",", ",", "*", "4", "7">>

\* fix-data, quality 0, southern and western hemisphere: $GNGGA,123520,3351.000,S,15112.500,W,0,00*60
GGA_NOFIX ==
    <<"$", "G", "N", "G", "G", "A", ",", "1", "2", "3", "5", "2", "0", ",",
    "3", "3", "5", "1", ".", "0", "0", "0", ",", "S", ",", "1", "5", "1",
    "1", "2", ".", "5", "0", "0", ",", "W", ",", "0", ",", "0", "0", "*",
    "6", "0">>

\* fix-data that ends after the time field: $GPGGA,101010*7B
GGA_SHORT ==
    <<"$", "G", "P", "G", "G", "A", ",", "1", "0", "1", "0", "1", "0", "*",
    "7", "B">>

\* fix-data with empty position fields and quality 1: $GPGGA,123519,,,,,1,08,0.9,545.4,M,46.9,M,,*7E
GGA_NOPOS ==
    <<"$", "G", "P", "G", "G", "A", ",", "1", "2", "3", "5", "1", "9", ",",
    ",", ",", ",", ",", "1", ",", "0", "8", ",", "0", ".", "9", ",", "5",
    "4", "5", ".", "4", ",", "M", ",", "4", "6", ".", "9", ",", "M", ",",
    ",", "*", "7", "E">>

\* fix-data with an empty time field: $GPGGA,,4807.038,N,01131.000,E,1,05,0.9*7C
GGA_NOTIME ==
    <<"$", "G", "P", "G", "G", "A", ",", ",", "4", "8", "0", "7", ".", "0",
    "3", "8", ",", "N", ",", "0", "1", "1", "3", "1", ".", "0", "0", "0",
    ",", "E", ",", "1", ",", "0", "5", ",", "0", ".", "9", "*", "7", "C">>

\* recommended-minimum, status A: $GPRMC,123521,A,4807.038,N,01131.000,E,022.4,084.4,230394,003.1,W*61
RMC_A ==
    <<"$", "G", "P", "R", "M", "C", ",", "1", "2", "3", "5", "2", "1", ",",
    "A", ",", "4", "8", "0", "7", ".", "0", "3", "8", ",", "N", ",", "0",
    "1", "1", "3", "1", ".", "0", "0", "0", ",", "E", ",", "0", "2", "2",
    ".", "4", ",", "0", "8", "4", ".", "4", ",", "2", "3", "0", "3", "9",
    "4", ",", "0", "0", "3", ".", "1", ",", "W", "*", "6", "1">>

\* recommended-minimum, status V: $GNRMC,123520,V,3351.000,S,15112.500,W,,,230394*14
RMC_V ==
    <<"$", "G", "N", "R", "M", "C", ",", "1", "2", "3", "5", "2", "0", ",",
    "V", ",", "3", "3", "5", "1", ".", "0", "0", "0", ",", "S", ",", "1",
    "5", "1", "1", "2", ".", "5", "0", "0", ",", "W", ",", ",", ",", "2",
    "3", "0", "3", "9", "4", "*", "1", "4">>

\* recommended-minimum whose status begins with A: $GPRMC,123521,AV,4807.038,N,01131.000,E*63
RMC_AV ==
    <<"$", "G", "P", "R", "M", "C", ",", "1", "2", "3", "5", "2", "1", ",",
    "A", "V", ",", "4", "8", "0", "7", ".", "0", "3", "8", ",", "N", ",",
    "0", "1", "1", "3", "1", ".", "0", "0", "0", ",", "E", "*", "6", "3">>

\* recommended-minimum of a receiver without a fix: $GPRMC,,V,,,,,,,230394,,,N*5C
RMC_EMPTY ==
    <<"$", "G", "P", "R", "M", "C", ",", ",", "V", ",", ",", ",", ",", ",",
    ",", ",", "2", "3", "0", "3", "9", "4", ",", ",", ",", "N", "*", "5",
    "C">>

\* a satellite-detail sentence, checksum in lower-case hex: $GPGSV,3,1,11,03,03,111,00*4a
GSV ==
    <<"$", "G", "P", "G", "S", "V", ",", "3", ",", "1", ",", "1", "1", ",",
    "0", "3", ",", "0", "3", ",", "1", "1", "1", ",", "0", "0", "*", "4",
    "a">>

\* nothing between $ and *: $*00
EMPTY_BODY ==
    <<"$", "*", "0", "0">>

\* GGA_FIX with a changed checksum digit: $GPGGA,123519,4807.038,N,01131.000,E,1,08,0.9,545.4,M,46.9,M,,*48
BAD_SUM ==
    <<"$", "G", "P", "G", "G", "A", ",", "1", "2", "3", "5", "1", "9", ",",
    "4", "8", "0", "7", ".", "0", "3", "8", ",", "N", ",", "0", "1", "1",
    "3", "1", ".", "0", "0", "0", ",", "E", ",", "1", ",", "0", "8", ",",
    "0", ".", "9", ",", "5", "4", "5", ".", "4", ",", "M", ",", "4", "6",
    ".", "9", ",", "M", ",", ",", "*", "4", "8">>

\* GGA_FIX without its $: GPGGA,123519,4807.038,N,01131.000,E,1,08,0.9,545.4,M,46.9,M,,*47
NO_DOLLAR ==
    <<"G", "P", "G", "G", "A", ",", "1", "2", "3", "5", "1", "9", ",", "4",
    "8", "0", "7", ".", "0", "3", "8", ",", "N", ",", "0", "1", "1", "3",
    "1", ".", "0", "0", "0", ",", "E", ",", "1", ",", "0", "8", ",", "0",
    ".", "9", ",", "5", "4", "5", ".", "4", ",", "M", ",", "4", "6", ".",
    "9", ",", "M", ",", ",", "*", "4", "7">>

\* no * at all: $GPGGA,123519,4807.038,N
NO_STAR ==
    <<"$", "G", "P", "G", "G", "A", ",", "1", "2", "3", "5", "1", "9", ",",
    "4", "8", "0", "7", ".", "0", "3", "8", ",", "N">>

\* a non-hex character right after *: $GPGSV,3,1*G1
BAD_HI ==
    <<"$", "G", "P", "G", "S", "V", ",", "3", ",", "1", "*", "G", "1">>

\* a non-hex character in the second position: $GPGSV,3,1*4Z
BAD_LO ==
    <<"$", "G", "P", "G", "S", "V", ",", "3", ",", "1", "*", "4", "Z">>

\* nothing after *: $GPGGA,101010*
STAR_LAST ==
    <<"$", "G", "P", "G", "G", "A", ",", "1", "0", "1", "0", "1", "0", "*">>

\* fix-data of a Galileo receiver: $GAGGA,123522,3351.000,S,15112.500,W,2,07*68
GA_GGA ==
    <<"$", "G", "A", "G", "G", "A", ",", "1", "2", "3", "5", "2", "2", ",",
    "3", "3", "5", "1", ".", "0", "0", "0", ",", "S", ",", "1", "5", "1",
    "1", "2", ".", "5", "0", "0", ",", "W", ",", "2", ",", "0", "7", "*",
    "6", "8">>

\* recommended-minimum of a Galileo receiver: $GARMC,123522,A,3351.000,S,15112.500,W*2D
GA_RMC ==
    <<"$", "G", "A", "R", "M", "C", ",", "1", "2", "3", "5", "2", "2", ",",
    "A", ",", "3", "3", "5", "1", ".", "0", "0", "0", ",", "S", ",", "1",
    "5", "1", "1", "2", ".", "5", "0", "0", ",", "W", "*", "2", "D">>

Lines ==
    {GGA_FIX, GGA_NOFIX, GGA_SHORT, GGA_NOPOS, GGA_NOTIME,
     RMC_A, RMC_V, RMC_AV, RMC_EMPTY, GSV,
     EMPTY_BODY, BAD_SUM, NO_DOLLAR, NO_STAR, BAD_HI,
     BAD_LO, STAR_LAST, GA_GGA, GA_RMC}

\* the first n characters of s
Take(s, n) == SubSeq(s, 1, IF n < Len(s) THEN n ELSE Len(s))

\* s without its first n characters
Drop(s, n) == SubSeq(s, n + 1, Len(s))

\* the code of the character at index i, NUL at and after the terminator
CodeAt(s, i) == IF i \in 1..Len(s) THEN Code[s[i]] ELSE 0

\* strchr from index from on: the index of the first c, 0 when there is none
FirstAt(s, c, from) ==
    LET I == {i \in from..Len(s) : s[i] = c}
    IN  IF I = {} THEN 0 ELSE CHOOSE i \in I : \A j \in I : i <= j

\* a ^ b on the n low bits
RECURSIVE XorBits(_, _, _)
XorBits(a, b, n) ==
    IF n = 0 THEN 0
    ELSE ((a + b) % 2) + 2 * XorBits(a \div 2, b \div 2, n - 1)

\* without the lower-case digits
hex2uc_upper(c) ==
    IF c >= 48 /\ c <= 57 THEN c - 48
    ELSE IF c >= 65 /\ c <= 70 THEN c - 65 + 10
    ELSE 255

\* '0'..'9' are 48..57, 'A'..'F' 65..70, 'a'..'f' 97..102; 0xFF otherwise
hex2uc(c) ==
    IF c >= 48 /\ c <= 57 THEN c - 48
    ELSE IF c >= 65 /\ c <= 70 THEN c - 65 + 10
    ELSE IF c >= 97 /\ c <= 102 THEN c - 97 + 10
    ELSE 255

\* cs after the loop has consumed s[from..to]; ^ is associative, so the
\* loop's left-to-right fold is computed here over the two halves
RECURSIVE XorRange(_, _, _)
XorRange(s, from, to) ==
    IF from > to THEN 0
    ELSE IF from = to THEN Code[s[from]]
    ELSE LET mid == (from + to) \div 2
         IN  XorBits(XorRange(s, from, mid), XorRange(s, mid + 1, to), 8)

\* a read past the terminator (a line that ends right after '*') is taken
\* as NUL: the first such character already makes the function return 0
checksum_ok(l) ==
    IF CodeAt(l, 1) # Code["$"] THEN FALSE
    ELSE LET star == FirstAt(l, "*", 2)
         IN  IF star = 0 THEN FALSE
             ELSE LET cs == XorRange(l, 2, star - 1)
                      hi == hex2uc(CodeAt(l, star + 1))
                      lo == hex2uc(CodeAt(l, star + 2))
                  IN  IF hi = 255 \/ lo = 255 THEN FALSE
                      ELSE cs = hi * 16 + lo

\* buf after the copy, without the leading '$' and cut at the first '*'
SentenceBody(l) ==
    LET buf  == Take(l, NMEA_BUF - 1)
        p    == IF CodeAt(buf, 1) = Code["$"] THEN Drop(buf, 1) ELSE buf
        star == FirstAt(p, "*", 1)
    IN  IF star # 0 THEN Take(p, star - 1) ELSE p

\* strncmp(p, w, 5) == 0 for a five-character w
strncmp5(p, w) == Len(p) >= 5 /\ SubSeq(p, 1, 5) = w

\* with only the talker compared
IsGGA_talker(p) ==
    \/ Take(p, 2) = <<"G", "P">>
    \/ Take(p, 2) = <<"G", "N">>

IsGGA(p) ==
    \/ strncmp5(p, <<"G", "P", "G", "G", "A">>)
    \/ strncmp5(p, <<"G", "N", "G", "G", "A">>)

IsRMC(p) ==
    \/ strncmp5(p, <<"G", "P", "R", "M", "C">>)
    \/ strncmp5(p, <<"G", "N", "R", "M", "C">>)

\* what the successive strtok(.., ",") calls return: strtok skips the
\* commas in front of a token and ends the token at the next comma, so a
\* token starts at every character that is no comma and follows a comma or
\* the start of the string, and tokens are never empty
strtok_all(s) ==
    LET starts == {i \in 1..Len(s) :
                      s[i] # "," /\ (i = 1 \/ s[i - 1] = ",")}
        start(k) == CHOOSE i \in starts :
                        Cardinality({j \in starts : j < i}) = k - 1
        stop(i)  == LET c == FirstAt(s, ",", i)
                    IN  IF c = 0 THEN Len(s) ELSE c - 1
    IN  [k \in 1..Cardinality(starts) |-> SubSeq(s, start(k), stop(start(k)))]

\* the loop stops at n == 16; f[0..n-1] is held as f[1..n]
strtok_fields(p) == Take(strtok_all(p), NMEA_FIELDS)

IsDigit(c) == Code[c] >= 48 /\ Code[c] <= 57

\* the number of digits of s from index i on
RECURSIVE DigitRun(_, _)
DigitRun(s, i) ==
    IF i > Len(s) \/ ~IsDigit(s[i]) THEN 0 ELSE 1 + DigitRun(s, i + 1)

\* the value of the digits of s from index i on, after v
RECURSIVE DigitsVal(_, _, _)
DigitsVal(s, i, v) ==
    IF i > Len(s) \/ ~IsDigit(s[i]) THEN v
    ELSE DigitsVal(s, i + 1, v * 10 + Code[s[i]] - 48)

\* atoi of a token without leading white space and short enough not to
\* overflow int
atoi(s) ==
    IF s # <<>> /\ s[1] = "-" THEN 0 - DigitsVal(s, 2, 0)
    ELSE IF s # <<>> /\ s[1] = "+" THEN DigitsVal(s, 2, 0)
    ELSE DigitsVal(s, 1, 0)

\* atof of an unsigned decimal token, in thousandths
atof(s) ==
    LET n == DigitRun(s, 1)
        m == IF n + 1 <= Len(s) /\ s[n + 1] = "."
             THEN DigitRun(s, n + 2) ELSE 0
        FracDigit(k) == IF k <= m THEN Code[s[n + 1 + k]] - 48 ELSE 0
    IN  DigitsVal(s, 1, 0) * 1000
        + FracDigit(1) * 100 + FracDigit(2) * 10 + FracDigit(3)

\* with only the southern hemisphere negated
nmea_deg_to_decimal_south(ddmm, hem) ==
    IF ddmm = <<>> THEN 0
    ELSE LET dot     == FirstAt(ddmm, ".", 1)
             deg_len == (IF dot # 0 THEN dot - 1 ELSE Len(ddmm)) - 2
         IN  IF deg_len <= 0 \/ deg_len > 3 THEN 0
             ELSE LET deg == atof(Take(ddmm, deg_len))
                      min == atof(Drop(ddmm, deg_len))
                      val == deg * 60 + min
                  IN  IF hem # <<>> /\ hem[1] = "S"
                      THEN 0 - val ELSE val

\* the result in units of 1/60000 degree: deg and min are in thousandths,
\* so deg * 60 + min is 60000 * (deg + min / 60.0)
nmea_deg_to_decimal(ddmm, hem) ==
    IF ddmm = <<>> THEN 0
    ELSE LET dot     == FirstAt(ddmm, ".", 1)
             deg_len == (IF dot # 0 THEN dot - 1 ELSE Len(ddmm)) - 2
         IN  IF deg_len <= 0 \/ deg_len > 3 THEN 0
             ELSE LET deg == atof(Take(ddmm, deg_len))
                      min == atof(Drop(ddmm, deg_len))
                      val == deg * 60 + min
                  IN  IF hem # <<>> /\ hem[1] \in {"S", "W"}
                      THEN 0 - val ELSE val

\* with the quality stored and has_fix left as it was
decode_gga_quality(f, out) ==
    LET n  == Len(f)
        o1 == IF n > 1 /\ f[2] # <<>>
              THEN [out EXCEPT !.time_utc = Take(f[2], TIME_UTC_SIZE - 1)]
              ELSE out
        o2 == IF n > 6 /\ f[7] # <<>>
              THEN [o1 EXCEPT !.fix_quality = atoi(f[7])]
              ELSE o1
        o3 == IF n > 7 /\ f[8] # <<>>
              THEN [o2 EXCEPT !.sats = atoi(f[8])]
              ELSE o2
    IN  IF n > 5
        THEN [o3 EXCEPT !.lat_deg = nmea_deg_to_decimal(f[3], f[4]),
                        !.lon_deg = nmea_deg_to_decimal(f[5], f[6])]
        ELSE o3

\* the GGA branch on the field table f
decode_gga(f, out) ==
    LET n  == Len(f)
        o1 == IF n > 1 /\ f[2] # <<>>
              THEN [out EXCEPT !.time_utc = Take(f[2], TIME_UTC_SIZE - 1)]
              ELSE out
        o2 == IF n > 6 /\ f[7] # <<>>
              THEN [o1 EXCEPT !.fix_quality = atoi(f[7]),
                              !.has_fix = (atoi(f[7]) > 0)]
              ELSE o1
        o3 == IF n > 7 /\ f[8] # <<>>
              THEN [o2 EXCEPT !.sats = atoi(f[8])]
              ELSE o2
    IN  IF n > 5
        THEN [o3 EXCEPT !.lat_deg = nmea_deg_to_decimal(f[3], f[4]),
                        !.lon_deg = nmea_deg_to_decimal(f[5], f[6])]
        ELSE o3

\* the RMC branch on the field table f
decode_rmc(f, out) ==
    LET n  == Len(f)
        o1 == IF n > 1 /\ f[2] # <<>>
              THEN [out EXCEPT !.time_utc = Take(f[2], TIME_UTC_SIZE - 1)]
              ELSE out
        o2 == IF n > 2 /\ f[3] # <<>> /\ f[3][1] = "A"
              THEN [o1 EXCEPT !.has_fix = TRUE]
              ELSE o1
    IN  IF n > 6
        THEN [o2 EXCEPT !.lat_deg = nmea_deg_to_decimal(f[4], f[5]),
                        !.lon_deg = nmea_deg_to_decimal(f[6], f[7])]
        ELSE o2

\* the part of nmea_parse_line after the checksum test
nmea_decode(l, out) ==
    LET p == SentenceBody(l)
    IN  IF IsGGA(p) THEN decode_gga(strtok_fields(p), out)
        ELSE IF IsRMC(p) THEN decode_rmc(strtok_fields(p), out)
        ELSE out

\* with the fields stored before the checksum is tested
nmea_parse_line_eager(l, out) ==
    [ret |-> checksum_ok(l), out |-> nmea_decode(l, out)]

\* the return value and the accumulator after the call
nmea_parse_line(l, out) ==
    IF ~checksum_ok(l) THEN [ret |-> FALSE, out |-> out]
    ELSE [ret |-> TRUE, out |-> nmea_decode(l, out)]

\* nmea_info_t after memset(&info, 0, sizeof info)
ZeroedInfo ==
    [has_fix |-> FALSE, fix_quality |-> 0, sats |-> 0,
     lat_deg |-> 0, lon_deg |-> 0, time_utc |-> <<>>]

NmeaIdle ==
    /\ acc = ZeroedInfo
    /\ line = <<>>
    /\ nret = FALSE

\* one line handed to the decoder
DoParse ==
    /\ \E l \in Lines :
          /\ line' = l
          /\ nret' = nmea_parse_line(l, acc).ret
          /\ acc' = nmea_parse_line(l, acc).out
    /\ UNCHANGED notNmea

\* ------------------------------------- GGA sentences over coordinate tokens
\* the coordinate tokens a receiver may send: no to four degree digits, two
\* minute digits, no to three decimals, and two tokens too short to hold
\* minutes
DegParts ==
    {<<>>, <<"4">>, <<"4", "8">>, <<"0", "1", "1">>, <<"1", "2", "3", "4">>}
MinParts == {<<"0", "7">>, <<"3", "1">>}
FracParts == {<<>>, <<".">>, <<".", "5">>, <<".", "0", "3", "8">>}
CoordTokens ==
    {d \o m \o f : d \in DegParts, m \in MinParts, f \in FracParts}
        \cup {<<"7">>, <<".", "5">>}
Hemispheres == {<<"N">>, <<"S">>, <<"E">>, <<"W">>}

\* the two upper-case hex digits of the checksum of body, as a sender
\* appends them
ChecksumDigits(body) ==
    LET digits == <<"0", "1", "2", "3", "4", "5", "6", "7",
                    "8", "9", "A", "B", "C", "D", "E", "F">>
        cs     == XorRange(body, 1, Len(body))
    IN  <<digits[(cs \div 16) + 1], digits[(cs % 16) + 1]>>

\* $GPGGA,123519,<ddmm>,<hem>,<ddmm>,<hem2>,1,08*<checksum>
CoordLine(ddmm, hem, ddmm2, hem2) ==
    LET body == <<"G", "P", "G", "G", "A", ",",
                  "1", "2", "3", "5", "1", "9", ",">>
                \o ddmm \o <<",">> \o hem \o <<",">>
                \o ddmm2 \o <<",">> \o hem2
                \o <<",", "1", ",", "0", "8">>
    IN  <<"$">> \o body \o <<"*">> \o ChecksumDigits(body)

\* one such sentence handed to the decoder as the first line of a session:
\* every token as the latitude with a fixed longitude, or as the longitude
\* with a fixed latitude
DoParseCoord ==
    /\ line = <<>>
    /\ \E t \in CoordTokens, h \in Hemispheres, asLat \in BOOLEAN :
          LET l == IF asLat
                   THEN CoordLine(t, h, <<"0", "1", "1", "3", "1">>, <<"E">>)
                   ELSE CoordLine(<<"4", "8", "0", "7">>, <<"N">>, t, h)
          IN  /\ line' = l
              /\ nret' = nmea_parse_line(l, acc).ret
              /\ acc' = nmea_parse_line(l, acc).out
    /\ UNCHANGED notNmea

\* =========================================================== the GPS handler
\* handle_gps (handlers.c:59-155) in the steps at which its environment
\* answers: open(), the two tcsetattr attempts, each read(), and the end of
\* the read window.  A byte is a one-character string; the stream carries
\* characters of the sentences, "\r" and "\n".
LINE_SIZE == 256            \* char line[256]
LAST_ROWS == 5              \* char last[5][128]
LAST_SIZE == 128
RBUF_SIZE == 512            \* char rbuf[512]
MaxReads == 3               \* read() calls observed inside the window

\* everything the GPS handler leaves alone
notGps == <<coreVars, cvars, ivars, uvars>>

CR == "\r"
LF == "\n"
CRLF == <<CR, LF>>

\* n characters without a line end
Long(n) == [i \in 1..n |-> "M"]

\* what one read() may return: whole lines, parts of lines, line ends, a
\* line of the largest length that fits line[], a line longer than a row of
\* last[], three lines at once, and nothing (n <= 0)
Chunks ==
    { GGA_FIX \o CRLF,
      RMC_V \o CRLF \o Take(GGA_NOFIX, 10),
      Drop(GGA_NOFIX, 10) \o <<LF>>,
      <<LF>>,
      Long(LINE_SIZE - 1),
      <<"M", CR>>,
      GSV \o <<LF>> \o RMC_A \o <<LF>> \o GGA_SHORT \o <<LF>>,
      Long(LAST_SIZE) \o <<LF>>,
      <<>> }

\* the contents of last[][] before anything is stored: the array is not
\* initialized, each row holds whatever the stack held
StackRows ==
    { [r \in 0..(LAST_ROWS - 1) |-> <<>>],
      [r \in 0..(LAST_ROWS - 1) |-> <<"Z", "Z">>],
      [r \in 0..(LAST_ROWS - 1) |-> IF r = 1 THEN <<"G", "P">> ELSE <<>>] }

\* handle_gps has been called and has not yet opened the device
GpsStart ==
    [pc |-> "start", use_baud |-> 0, line |-> <<>>, llen |-> 0,
     info |-> ZeroedInfo, last |-> [r \in 0..(LAST_ROWS - 1) |-> <<>>],
     last_idx |-> 0, last_cnt |-> 0, parsed |-> <<>>, peak |-> 0,
     reads |-> 0]

\* handle_gps has not been called
GpsIdle ==
    /\ G = [GpsStart EXCEPT !.pc = "idle"]
    /\ rx = <<>>
    /\ stdout = <<>>

\* log_info(...) prints "[INFO] " and the message on stdout
log_info(out, msg) == Append(out, [tag |-> "[INFO] ", text |-> msg])

\* open() and its failure branch (lines 66-74)
GpsOpen ==
    /\ G.pc = "start"
    /\ \E opened \in BOOLEAN :
          IF opened
          THEN /\ G' = [G EXCEPT !.pc = "config"]
               /\ stdout' = log_info(stdout, "GPS command received")
          ELSE /\ G' = [G EXCEPT !.pc = "done"]
               /\ stdout' = Append(log_info(log_info(stdout,
                                 "GPS command received"), "GPS open failed"),
                                 [tag |-> "TERM: ",
                                  text |-> "GPS ERROR - open failed"])
    /\ UNCHANGED <<rx, notGps>>

\* the two configuration attempts (lines 77-91) and the initialization of
\* the locals (95-101)
GpsConfig ==
    /\ G.pc = "config"
    /\ \E ok9600 \in BOOLEAN, ok115200 \in BOOLEAN, rows \in StackRows :
          IF ok9600 \/ ok115200
          THEN /\ G' = [G EXCEPT !.pc = "loop",
                                 !.use_baud = IF ok9600 THEN 9600 ELSE 115200,
                                 !.llen = 0, !.line = <<>>,
                                 !.info = ZeroedInfo,
                                 !.last = rows,
                                 !.last_idx = 0, !.last_cnt = 0]
               /\ UNCHANGED stdout
          ELSE /\ G' = [G EXCEPT !.pc = "done"]
               /\ stdout' = Append(log_info(stdout, "GPS UART config failed"),
                                   [tag |-> "TERM: ",
                                    text |-> "GPS ERROR - UART config failed"])
    /\ UNCHANGED <<rx, notGps>>

\* with a character stored while llen + 1 is at most the size of line[]
GpsByte_full(g, c) ==
    IF c = CR THEN g
    ELSE IF c = LF
    THEN IF g.llen > 0
         THEN [g EXCEPT
                 !.last[g.last_idx] = Take(g.line, LAST_SIZE - 1),
                 !.last_idx = (g.last_idx + 1) % LAST_ROWS,
                 !.last_cnt = IF g.last_cnt < LAST_ROWS
                              THEN g.last_cnt + 1 ELSE g.last_cnt,
                 !.info = nmea_parse_line(g.line, g.info).out,
                 !.parsed = Append(g.parsed, g.line),
                 !.llen = 0, !.line = <<>>]
         ELSE g
    ELSE IF g.llen + 1 <= LINE_SIZE
    THEN [g EXCEPT !.line = Append(g.line, c), !.llen = g.llen + 1,
                   !.peak = IF g.llen + 1 > g.peak THEN g.llen + 1 ELSE g.peak]
    ELSE [g EXCEPT !.llen = 0, !.line = <<>>]

\* the body of the for loop (lines 109-132) for one byte c; line holds the
\* llen characters stored since the last reset, which line[llen] = '\0'
\* turns into the C string handed to strncpy and nmea_parse_line
GpsByte(g, c) ==
    IF c = CR THEN g
    ELSE IF c = LF
    THEN IF g.llen > 0
         THEN [g EXCEPT
                 !.last[g.last_idx] = Take(g.line, LAST_SIZE - 1),
                 !.last_idx = (g.last_idx + 1) % LAST_ROWS,
                 !.last_cnt = IF g.last_cnt < LAST_ROWS
                              THEN g.last_cnt + 1 ELSE g.last_cnt,
                 !.info = nmea_parse_line(g.line, g.info).out,
                 !.parsed = Append(g.parsed, g.line),
                 !.llen = 0, !.line = <<>>]
         ELSE g
    ELSE IF g.llen + 1 < LINE_SIZE
    THEN [g EXCEPT !.line = Append(g.line, c), !.llen = g.llen + 1,
                   !.peak = IF g.llen + 1 > g.peak THEN g.llen + 1 ELSE g.peak]
    ELSE [g EXCEPT !.llen = 0, !.line = <<>>]

\* the for loop over rbuf[from..to] (line 108): the first half of the
\* bytes, then the second half from the locals the first half left
RECURSIVE GpsFor(_, _, _, _)
GpsFor(g, rbuf, from, to) ==
    IF from > to THEN g
    ELSE IF from = to THEN GpsByte(g, rbuf[from])
    ELSE LET mid == (from + to) \div 2
         IN  CHOOSE h \in {GpsFor(k, rbuf, mid + 1, to) :
                               k \in {GpsFor(g, rbuf, from, mid)}} : TRUE

\* one pass of the while loop (lines 104-133): read() returns a chunk, or
\* nothing and the handler sleeps
GpsRead ==
    /\ G.pc = "loop"
    /\ G.reads < MaxReads
    /\ \E rbuf \in Chunks :
          /\ Len(rbuf) <= RBUF_SIZE
          /\ G' = [GpsFor(G, rbuf, 1, Len(rbuf)) EXCEPT !.reads = G.reads + 1]
          /\ rx' = rx \o rbuf
    /\ UNCHANGED <<stdout, notGps>>

\* the test of the GPS summary (handlers.c:139)
SummaryTest(info) == info.has_fix \/ info.fix_quality > 0

\* the summary line (lines 139-148)
GpsSummary(g) ==
    IF SummaryTest(g.info)
    THEN [tag |-> "TERM: ", text |-> "GPS ok", baud |-> g.use_baud,
          quality |-> g.info.fix_quality, sats |-> g.info.sats,
          time |-> IF g.info.time_utc # <<>> THEN g.info.time_utc
                   ELSE <<"u", "n", "k", "n", "o", "w", "n">>,
          lat |-> g.info.lat_deg, lon |-> g.info.lon_deg]
    ELSE [tag |-> "TERM: ", text |-> "GPS no-fix", baud |-> g.use_baud,
          quality |-> g.info.fix_quality, sats |-> g.info.sats,
          time |-> IF g.info.time_utc # <<>> THEN g.info.time_utc
                   ELSE <<"u", "n", "k", "n", "o", "w", "n">>]

\* with the rows printed from row 0 on
GpsTail_fromzero(g) ==
    [i \in 1..g.last_cnt |->
        [tag |-> "LOG: ", text |-> g.last[(i - 1) % LAST_ROWS]]]

\* the LOG lines (lines 151-154): rows last_idx, last_idx + 1, ... mod 5
GpsTail(g) ==
    [i \in 1..g.last_cnt |->
        [tag |-> "LOG: ", text |-> g.last[(g.last_idx + i - 1) % LAST_ROWS]]]

\* the read window is over (line 104): close, summary, LOG tail
GpsFinish ==
    /\ G.pc = "loop"
    /\ G' = [G EXCEPT !.pc = "done"]
    /\ stdout' = Append(stdout, GpsSummary(G)) \o GpsTail(G)
    /\ UNCHANGED <<rx, notGps>>

\* ======================================================= command dispatch
\* The command table (commands.c:14-20); a handler is named by its
\* function, NULL is the null function pointer.
commands ==
    << [name |-> "--capture", execute |-> "handle_capture",
        description |-> "Simulate or trigger a capture sequence"],
       [name |-> "--gps", execute |-> "handle_gps",
        description |-> "Retrieve GPS coordinates"],
       [name |-> "--stream-start", execute |-> "handle_stream_start",
        description |-> "Start simulated streaming"],
       [name |-> "--tone-send", execute |-> "handle_tone_send",
        description |-> "Send a test tone"],
       [name |-> "--help", execute |-> NULL,
        description |-> "Show this help menu"] >>

\* sizeof(commands) / sizeof(Command)
num_commands == Len(commands)

\* log_warning(...) prints "[WARNING] " and the message on stdout
log_warning(out, msg) == Append(out, [tag |-> "[WARNING] ", text |-> msg])

\* printf of one line
printf(out, msg) == Append(out, [tag |-> "", text |-> msg])

\* print_usage (commands.c:68-80): the heading, one line per table entry,
\* the examples
print_usage(out) ==
    out \o << [tag |-> "", text |-> "PAC-RF Application Usage:"],
              [tag |-> "", text |-> "  ./pac_rf_exec <command> [options]"],
              [tag |-> "", text |-> "Available commands:"] >>
        \o [i \in 1..num_commands |->
               [tag |-> "", text |-> commands[i].name,
                description |-> commands[i].description]]
        \o << [tag |-> "", text |-> "Examples:"],
              [tag |-> "", text |-> "  ./pac_rf_exec --gps"],
              [tag |-> "", text |-> "  ./pac_rf_exec --capture --bitwidth 8"] >>

\* what a handler prints before it returns or, for handle_gps, before it
\* opens the device (handlers.c:160-207); a call through the null pointer
\* prints nothing
HandlerPrints(out, fn) ==
    IF fn = "handle_capture"
    THEN printf(printf(log_info(out, "Capture command received (stub)."),
                       "LOG: Capture request received (stub)"),
                "TERM: Simulated capture complete. (stub)")
    ELSE IF fn = "handle_tone_send"
    THEN printf(printf(log_info(out, "Tone send command received (stub)."),
                       "LOG: Tone send request received (stub)"),
                "TERM: Simulated tone transmitted. (stub)")
    ELSE IF fn = "handle_stream_start"
    THEN printf(printf(log_info(out, "Stream start (stub)."),
                       "LOG: Stream start requested (stub)"),
                "TERM: Stream started (stub)")
    ELSE out

\* the commands a caller passes: none, the empty string, the names of the
\* table, the names the GUI workers send, and names close to them
Commands ==
    {NULL, "", "--capture", "--gps", "--stream-start", "--stream-stop",
     "--tone-send", "--help", "--spectrum-start", "--GPS", "--gps ",
     "gps", "--hel"}

\* with the handler of the matching entry called whatever the command
dispatch_command_nohelp(cmd) ==
    IF cmd = NULL \/ cmd = ""
    THEN [out |-> print_usage(log_warning(stdout, "No command provided.")),
          called |-> <<>>]
    ELSE LET hit == {i \in 1..num_commands : commands[i].name = cmd}
         IN  IF hit # {}
             THEN LET i == CHOOSE k \in hit : \A j \in hit : k <= j
                  IN  [out |-> HandlerPrints(
                                  log_info(stdout,
                                      <<"Dispatching command: ", cmd>>),
                                  commands[i].execute),
                       called |-> <<commands[i].execute>>]
             ELSE [out |-> print_usage(log_warning(stdout,
                              <<"Unknown command received: ", cmd>>)),
                   called |-> <<>>]

\* dispatch_command (commands.c:36-60): stdout after the call and the
\* functions called through the table, in order; strcmp(a, b) == 0 is a = b
dispatch_command(cmd) ==
    IF cmd = NULL \/ cmd = ""
    THEN [out |-> print_usage(log_warning(stdout, "No command provided.")),
          called |-> <<>>]
    ELSE LET hit == {i \in 1..num_commands : commands[i].name = cmd}
         IN  IF hit # {}
             THEN LET i == CHOOSE k \in hit : \A j \in hit : k <= j
                  IN  IF cmd = "--help"
                      THEN [out |-> print_usage(stdout), called |-> <<>>]
                      ELSE [out |-> HandlerPrints(
                                      log_info(stdout,
                                          <<"Dispatching command: ", cmd>>),
                                      commands[i].execute),
                            called |-> <<commands[i].execute>>]
             ELSE [out |-> print_usage(log_warning(stdout,
                              <<"Unknown command received: ", cmd>>)),
                   called |-> <<>>]

CmdIdle ==
    /\ dispatched = <<>>

\* the one call of dispatch_command a process makes; a called handle_gps
\* stands at its start and runs as the GPS handler's actions
DoDispatch ==
    /\ dispatched = <<>>
    /\ G.pc = "idle"
    /\ \E cmd \in Commands :
          LET r == dispatch_command(cmd)
          IN  /\ stdout' = r.out
              /\ dispatched' = Append(dispatched,
                      [cmd |-> cmd, called |-> r.called,
                       printed |-> SubSeq(r.out, Len(stdout) + 1, Len(r.out))])
              /\ G' = IF r.called = <<"handle_gps">> THEN GpsStart ELSE G
    /\ UNCHANGED <<rx, coreVars, ivars, uvars>>

\* ================================================== the remote command runner
\* run_cmd_internal (interface.c:100-173) beside the subprocess popen()
\* starts.  The subprocess writes into the pipe, may close its output, and
\* exits; the runner's steps are popen(), each fgets(), the end of file, and
\* pclose(), which waits for the exit.
FGETS_SIZE == 4096          \* char line[4096]
MaxEmit == 3                \* writes of the subprocess observed

\* what the subprocess writes at once: a line, two lines, the start of a
\* line, its end, an empty line, a line without its line feed
OUT_TERM ==
    <<"T", "E", "R", "M", ":", " ", "o", "k", LF>>
OUT_TWO ==
    <<"L", "O", "G", ":", " ", "a", LF, "L", "O", "G", ":", " ", "b", LF>>
OUT_PART ==
    <<"I", "M", "G", ":", " ", "/", "t">>
OUT_REST ==
    <<"m", "p", "/", "x", LF>>
OUT_BARE ==
    <<"s", "s", "h", ":", " ", "d", "o", "w", "n">>
Writes == {OUT_TERM, OUT_TWO, OUT_PART, OUT_REST, <<LF>>, OUT_BARE}

\* what pclose() returns for a subprocess that exited with 0, with 1, and
\* with 255: the status of wait()
ExitStatus == {0, 256, 65280}

\* everything the runner leaves alone
notRun == <<coreVars, gvars, cvars, uvars>>

RunIdle ==
    /\ R = [pc |-> "idle", passthrough_stdout |-> FALSE, on_line |-> NULL,
            ret |-> 0]
    /\ sub = [state |-> "none", emitted |-> <<>>, writes |-> 0, status |-> 0]
    /\ pipe = <<>>
    /\ fwd = <<>>

\* what fgets(line, sizeof line, fp) stores: the bytes up to and with the
\* first line feed, at most sizeof line - 1 of them
fgets(p) ==
    LET nl == FirstAt(p, LF, 1)
        n  == IF nl # 0 THEN nl ELSE Len(p)
    IN  Take(p, IF n < FGETS_SIZE - 1 THEN n ELSE FGETS_SIZE - 1)

\* fgets has a line to return: a line feed is in the pipe, or the buffer
\* can be filled, or the writer is gone and bytes are left
CanRead ==
    \/ FirstAt(pipe, LF, 1) # 0
    \/ Len(pipe) >= FGETS_SIZE - 1
    \/ sub.state \in {"closed", "exited"} /\ pipe # <<>>

\* printf/fputs to stdout when passthrough_stdout, on_line(...) when there
\* is a callback; src names the statement
Forward(out, r, src, term, log) ==
    (IF r.passthrough_stdout
     THEN Append(out, [to |-> "stdout", src |-> src, text |-> term])
     ELSE out)
    \o (IF r.on_line # NULL
        THEN <<[to |-> r.on_line, src |-> src, text |-> log]>>
        ELSE <<>>)

\* run_pacrf_cmd(args) or run_pacrf_cmd_cb(args, on_line, user), up to and
\* with popen() (interface.c:104-128, 179-187)
RunCall ==
    /\ R.pc = "idle"
    /\ \E cli \in BOOLEAN, started \in BOOLEAN :
          LET r    == [R EXCEPT !.passthrough_stdout = cli,
                                !.on_line = IF cli THEN NULL
                                            ELSE "pacrf_on_line_cb"]
              exec == IF cli
                      THEN <<[to |-> "stdout", src |-> "exec",
                              text |-> "LOG: Executing remote"]>>
                      ELSE <<>>
          IN  IF started
              THEN /\ R' = [r EXCEPT !.pc = "reading"]
                   /\ sub' = [sub EXCEPT !.state = "running"]
                   /\ fwd' = fwd \o exec
              ELSE /\ R' = [r EXCEPT !.pc = "returned", !.ret = -1]
                   /\ sub' = sub
                   /\ fwd' = Forward(fwd \o exec, r, "error",
                                "TERM: ERROR - failed to start subprocess",
                                "LOG: ERROR - failed to start subprocess")
    /\ UNCHANGED <<pipe, notRun>>

\* the subprocess writes
SubEmit ==
    /\ sub.state = "running"
    /\ sub.writes < MaxEmit
    /\ \E w \in Writes :
          /\ pipe' = pipe \o w
          /\ sub' = [sub EXCEPT !.emitted = sub.emitted \o w,
                                !.writes = sub.writes + 1]
    /\ UNCHANGED <<R, fwd, notRun>>

\* the subprocess closes its output and goes on running
SubClose ==
    /\ sub.state = "running"
    /\ sub' = [sub EXCEPT !.state = "closed"]
    /\ UNCHANGED <<R, pipe, fwd, notRun>>

\* the subprocess exits
SubExit ==
    /\ sub.state \in {"running", "closed"}
    /\ \E s \in ExitStatus : sub' = [sub EXCEPT !.state = "exited", !.status = s]
    /\ UNCHANGED <<R, pipe, fwd, notRun>>

\* with a last line that has no line feed thrown away
RunFgets_drop ==
    /\ R.pc = "reading"
    /\ CanRead
    /\ pipe' = Drop(pipe, Len(fgets(pipe)))
    /\ fwd' = IF FirstAt(fgets(pipe), LF, 1) # 0
              THEN Forward(fwd, R, "line", fgets(pipe), fgets(pipe))
              ELSE fwd
    /\ UNCHANGED <<R, sub, notRun>>

\* one pass of the while loop (interface.c:132-142)
RunFgets ==
    /\ R.pc = "reading"
    /\ CanRead
    /\ pipe' = Drop(pipe, Len(fgets(pipe)))
    /\ fwd' = Forward(fwd, R, "line", fgets(pipe), fgets(pipe))
    /\ UNCHANGED <<R, sub, notRun>>

\* fgets returns NULL: the pipe is empty and no writer is left
RunEof ==
    /\ R.pc = "reading"
    /\ sub.state \in {"closed", "exited"}
    /\ pipe = <<>>
    /\ R' = [R EXCEPT !.pc = "closing"]
    /\ UNCHANGED <<sub, pipe, fwd, notRun>>

\* pclose() returns, which it does once the subprocess has exited, and the
\* rest of the function (interface.c:144-172)
RunClose ==
    /\ R.pc = "closing"
    /\ sub.state = "exited"
    /\ \E failed \in BOOLEAN :
          LET status == IF failed THEN -1 ELSE sub.status
          IN  /\ R' = [R EXCEPT !.pc = "returned", !.ret = status]
              /\ fwd' = IF status = -1
                        THEN Forward(fwd, R, "error",
                                 "TERM: ERROR - command close failed",
                                 "LOG: ERROR - command close failed")
                        ELSE IF status # 0
                        THEN Forward(fwd, R, "status",
                                 <<"LOG: Subprocess exited with status ", status>>,
                                 <<"LOG: Subprocess exited with status ", status>>)
                        ELSE fwd
    /\ UNCHANGED <<sub, pipe, notRun>>

\* ================================================================= the GUI
\* main_gui.c (src/unnamed/part_002:77-352): the output handler registry,
\* the routing of a line, the worker threads and the main loop's idle queue.
\* A thread runs one statement of a worker at a time: each post_gui, each
\* callback of run_pacrf_cmd_cb.
MaxWorkers == 2             \* worker threads alive at once
MaxLines == 2               \* lines one run of the remote command delivers

PRE_TERM ==
    <<"T", "E", "R", "M", ":", " ">>
PRE_LOG ==
    <<"L", "O", "G", ":", " ">>
PRE_IMG ==
    <<"I", "M", "G", ":", " ">>
PRE_WARN ==
    <<"W", "A", "R", "N", ":", " ">>
PRE_ERR ==
    <<"E", "R", "R", ":", " ">>
PRE_JSON ==
    <<"J", "S", "O", "N", ":", " ">>
TAG_WARN ==
    <<"[", "W", "A", "R", "N", "]", " ">>
TAG_ERROR ==
    <<"[", "E", "R", "R", "O", "R", "]", " ">>

\* register_output_handler (part_002:173-176): a new entry in front; <<>>
\* stands for the null and for the empty prefix
register_output_handler(h, prefix, fn) ==
    IF prefix = <<>> \/ fn = NULL THEN h
    ELSE <<[prefix |-> prefix, fn |-> fn]>> \o h

\* init_default_handlers (part_002:184-192)
init_default_handlers(h) ==
    register_output_handler(
     register_output_handler(
      register_output_handler(
       register_output_handler(
        register_output_handler(
         register_output_handler(h, PRE_TERM, "oh_term"),
         PRE_LOG, "oh_log"),
        PRE_IMG, "oh_img"),
       PRE_WARN, "oh_warn"),
      PRE_ERR, "oh_err"),
     PRE_JSON, "oh_json")

\* g_str_has_prefix(s, prefix)
g_str_has_prefix(s, prefix) ==
    Len(s) >= Len(prefix) /\ SubSeq(s, 1, Len(prefix)) = prefix

\* g_strstrip: s without its leading and trailing white space
IsSpace(c) == c \in {" ", LF, CR}
g_strstrip(s) ==
    LET I == {i \in 1..Len(s) : ~IsSpace(s[i])}
    IN  IF I = {} THEN <<>>
        ELSE SubSeq(s, CHOOSE i \in I : \A j \in I : i <= j,
                       CHOOSE i \in I : \A j \in I : i >= j)

\* what the handler fn posts for its argument p (part_002:177-182): the kind
\* and the string of its post_gui call
OutputHandler(fn, p) ==
    IF fn = "oh_term" THEN [kind |-> "GUI_MSG_TERM", s |-> p]
    ELSE IF fn = "oh_log" THEN [kind |-> "GUI_MSG_LOG", s |-> p]
    ELSE IF fn = "oh_img" THEN [kind |-> "GUI_MSG_IMG", s |-> g_strstrip(p)]
    ELSE IF fn = "oh_warn" THEN [kind |-> "GUI_MSG_LOG", s |-> TAG_WARN \o p]
    ELSE IF fn = "oh_err" THEN [kind |-> "GUI_MSG_LOG", s |-> TAG_ERROR \o p]
    ELSE [kind |-> "GUI_MSG_LOG", s |-> p]

\* with the whole line given to the handler
gui_route_line_registered_whole(h, l) ==
    LET hit == {k \in 1..Len(h) : g_str_has_prefix(l, h[k].prefix)}
    IN  IF hit # {}
        THEN LET e == h[CHOOSE k \in hit : \A j \in hit : k <= j]
             IN  [fn |-> e.fn, arg |-> l,
                  posts |-> <<OutputHandler(e.fn, l)>>]
        ELSE [fn |-> NULL, arg |-> l,
              posts |-> <<[kind |-> "GUI_MSG_LOG", s |-> l]>>]

\* gui_route_line_registered (part_002:194-202) over the list h: the handler
\* called, its argument, and the post_gui calls made
gui_route_line_registered(h, l) ==
    LET hit == {k \in 1..Len(h) : g_str_has_prefix(l, h[k].prefix)}
    IN  IF hit # {}
        THEN LET e == h[CHOOSE k \in hit : \A j \in hit : k <= j]
             IN  [fn |-> e.fn, arg |-> Drop(l, Len(e.prefix)),
                  posts |-> <<OutputHandler(e.fn, Drop(l, Len(e.prefix)))>>]
        ELSE [fn |-> NULL, arg |-> l,
              posts |-> <<[kind |-> "GUI_MSG_LOG", s |-> l]>>]

\* the lines run_pacrf_cmd_cb hands to the callback: one per prefix, lines
\* that almost have a prefix, a line that is only a prefix, a line with a
\* prefix inside, and the empty line
GUI_TERM ==
    <<"T", "E", "R", "M", ":", " ", "o", "k", LF>>
GUI_LOG ==
    <<"L", "O", "G", ":", " ", "a", LF>>
GUI_IMG ==
    <<"I", "M", "G", ":", " ", " ", "/", "t", "/", "x", " ", LF>>
GUI_WARN ==
    <<"W", "A", "R", "N", ":", " ", "w", LF>>
GUI_ERR ==
    <<"E", "R", "R", ":", " ", "e", LF>>
GUI_JSON ==
    <<"J", "S", "O", "N", ":", " ", "{", "}", LF>>
GUI_NOSPACE ==
    <<"T", "E", "R", "M", ":", "o", "k", LF>>
GUI_LOWER ==
    <<"l", "o", "g", ":", " ", "a", LF>>
GUI_ONLY ==
    <<"L", "O", "G", ":", " ">>
GUI_INSIDE ==
    <<"s", "s", "h", ":", " ", "T", "E", "R", "M", ":", " ", "x", LF>>
GuiLines ==
    {GUI_TERM, GUI_LOG, GUI_IMG, GUI_WARN, GUI_ERR, GUI_JSON, GUI_NOSPACE,
     GUI_LOWER, GUI_ONLY, GUI_INSIDE, <<LF>>}

\* the lines of the runs that share the main loop
FewLines == {GUI_TERM, GUI_INSIDE}

\* the buttons, the argument each one's worker sends to the remote binary
\* and the two status texts it posts (part_002:210-213); "..." is the
\* one character of the ellipsis
Buttons ==
    { [name |-> "gps", args |-> "--gps",
       first |-> "Running GPS on PAC-RF...", last |-> "GPS finished."],
      [name |-> "capture", args |-> "--capture",
       first |-> "Running CAPTURE on PAC-RF...", last |-> "Capture finished."],
      [name |-> "stream_start", args |-> "--stream-start",
       first |-> "Starting STREAM on PAC-RF...", last |-> "Stream start issued."],
      [name |-> "stream_stop", args |-> "--stream-stop",
       first |-> "Stopping STREAM on PAC-RF...", last |-> "Stream stop issued."] }

Workers == 1..MaxWorkers

\* everything the GUI leaves alone
notGui == <<coreVars, gvars, cvars, ivars>>

NoWorker == [pc |-> "none", button |-> "none", lines |-> 0]

\* the texts build_ui puts in the two buffers (part_002:283-294)
TEXT_TERM ==
    <<"C", "l", "i", "c", "k", " ", "G", "P", "S", " ", "t", "o", " ",
      "r", "u", "n", " ", "t", "h", "e", " ", "r", "e", "a", "l", " ",
      "P", "A", "C", "-", "R", "F", " ", "h", "a", "n", "d", "l", "e",
      "r", " ", "r", "e", "m", "o", "t", "e", "l", "y", ".", LF>>
TEXT_LOG ==
    <<"L", "o", "g", "s", " ", "w", "i", "l", "l", " ", "s", "t", "r",
      "e", "a", "m", " ", "h", "e", "r", "e", ".", LF>>

\* the names of the threads
MainThread == <<"main">>
WorkerThread(w) == <<"worker", w>>

\* the application before it is activated
GuiIdle ==
    /\ g_handlers = <<>>
    /\ W = [w \in Workers |-> NoWorker]
    /\ idle_q = <<>>
    /\ panes = [term_buf |-> <<>>, log_buf |-> <<>>, status_lbl |-> ""]
    /\ applied = <<>>
    /\ heap = {}
    /\ routed = [fn |-> NULL, arg |-> <<>>, posts |-> <<>>, line |-> <<>>]
    /\ actor = <<"none">>

\* on_activate and build_ui (part_002:243-344)
GuiActivated ==
    /\ g_handlers = init_default_handlers(<<>>)
    /\ W = [w \in Workers |-> NoWorker]
    /\ idle_q = <<>>
    /\ panes = [term_buf |-> <<TEXT_TERM>>, log_buf |-> <<TEXT_LOG>>,
                status_lbl |-> "Ready."]
    /\ applied = <<>>
    /\ heap = {}
    /\ routed = [fn |-> NULL, arg |-> <<>>, posts |-> <<>>, line |-> <<>>]
    /\ actor = MainThread

\* post_gui (part_002:162-164) by thread w: a new GuiMsg with a copy of s,
\* added to the idle sources of the main loop; id names the allocation
post_gui(q, w, kind, s) ==
    Append(q, [id |-> Len(applied) + Len(q) + 1, app |-> "app",
               kind |-> kind, s |-> s, by |-> w])

\* one of the buttons is clicked (part_002:218-221): the main thread starts
\* a worker, here the first of the slots not yet used; the GPS button clears
\* both text buffers first
Click(buttons, free) ==
    /\ \E b \in buttons, w \in free :
          /\ W[w].pc = "none"
          /\ \A v \in Workers : v < w => W[v].pc # "none"
          /\ W' = [W EXCEPT ![w] = [pc |-> "begin", button |-> b.name,
                                    lines |-> 0]]
          /\ panes' = IF b.name = "gps"
                      THEN [panes EXCEPT !.term_buf = <<>>, !.log_buf = <<>>]
                      ELSE panes
    /\ actor' = MainThread
    /\ UNCHANGED <<g_handlers, idle_q, applied, heap, routed, notGui>>

\* the worker's first statement: the status text of its start
WorkerBegin ==
    /\ \E w \in Workers, b \in Buttons :
          /\ W[w].pc = "begin" /\ W[w].button = b.name
          /\ idle_q' = post_gui(idle_q, w, "GUI_MSG_STATUS", b.first)
          /\ heap' = heap \cup {Len(applied) + Len(idle_q) + 1}
          /\ W' = [W EXCEPT ![w].pc = "run"]
          /\ actor' = WorkerThread(w)
    /\ UNCHANGED <<g_handlers, panes, applied, routed, notGui>>

\* run_pacrf_cmd_cb calls pacrf_on_line_cb with a line (part_002:203-205)
WorkerLine(lines) ==
    /\ \E w \in Workers, l \in lines :
          LET r == gui_route_line_registered(g_handlers, l)
          IN  /\ W[w].pc = "run"
              /\ W[w].lines < MaxLines
              /\ idle_q' = post_gui(idle_q, w, r.posts[1].kind, r.posts[1].s)
              /\ heap' = heap \cup {Len(applied) + Len(idle_q) + 1}
              /\ routed' = [fn |-> r.fn, arg |-> r.arg, posts |-> r.posts,
                            line |-> l]
              /\ W' = [W EXCEPT ![w].lines = W[w].lines + 1]
              /\ actor' = WorkerThread(w)
    /\ UNCHANGED <<g_handlers, panes, applied, notGui>>

\* run_pacrf_cmd_cb has returned: the status text of the end, and the
\* thread is over
WorkerEnd ==
    /\ \E w \in Workers, b \in Buttons :
          /\ W[w].pc = "run" /\ W[w].button = b.name
          /\ idle_q' = post_gui(idle_q, w, "GUI_MSG_STATUS", b.last)
          /\ heap' = heap \cup {Len(applied) + Len(idle_q) + 1}
          /\ W' = [W EXCEPT ![w].pc = "done"]
          /\ actor' = WorkerThread(w)
    /\ UNCHANGED <<g_handlers, panes, applied, routed, notGui>>

\* append_to_buffer (part_002:125-132): s, and a line feed after it unless
\* it ends in one
append_to_buffer(buf, s) ==
    IF s = <<>> \/ s[Len(s)] # LF THEN buf \o <<s, <<LF>>>>
    ELSE Append(buf, s)

\* gui_handle_image (part_002:136-143)
IMG_HEAD ==
    <<"[", "I", "M", "G", "]", " ", "R", "e", "m", "o", "t", "e", " ",
      "i", "m", "a", "g", "e", " ", "o", "n", " ", "P", "A", "C", "-",
      "R", "F", ":", " ">>
IMG_TAIL ==
    <<LF, "[", "T", "O", "D", "O", "]", " ", "F", "e", "t", "c", "h", " ",
      "a", "n", "d", " ", "r", "e", "n", "d", "e", "r", " ", "l", "o",
      "c", "a", "l", "l", "y", ".", LF>>
gui_handle_image(buf, remote_path) ==
    append_to_buffer(buf, Take(IMG_HEAD \o remote_path \o IMG_TAIL, 511))

\* with the message left in the queue
GuiDispatch_again ==
    /\ idle_q # <<>>
    /\ LET m == Head(idle_q)
       IN  /\ panes' =
                 IF m.kind = "GUI_MSG_TERM"
                 THEN [panes EXCEPT !.term_buf = append_to_buffer(@, m.s)]
                 ELSE IF m.kind = "GUI_MSG_LOG"
                 THEN [panes EXCEPT !.log_buf = append_to_buffer(@, m.s)]
                 ELSE IF m.kind = "GUI_MSG_IMG"
                 THEN [panes EXCEPT !.log_buf =
                          gui_handle_image(@, m.s)]
                 ELSE [panes EXCEPT !.status_lbl = m.s]
           /\ applied' = Append(applied, m)
           /\ heap' = heap \ {m.id}
    /\ idle_q' = IF Len(applied) < 1 THEN idle_q ELSE Tail(idle_q)
    /\ actor' = MainThread
    /\ UNCHANGED <<g_handlers, W, routed, notGui>>

\* the main loop runs the oldest idle source: gui_dispatch_to_main
\* (part_002:151-161) applies the message and frees it; returning FALSE
\* removes the source
GuiDispatch ==
    /\ idle_q # <<>>
    /\ LET m == Head(idle_q)
       IN  /\ panes' =
                 IF m.kind = "GUI_MSG_TERM"
                 THEN [panes EXCEPT !.term_buf = append_to_buffer(@, m.s)]
                 ELSE IF m.kind = "GUI_MSG_LOG"
                 THEN [panes EXCEPT !.log_buf = append_to_buffer(@, m.s)]
                 ELSE IF m.kind = "GUI_MSG_IMG"
                 THEN [panes EXCEPT !.log_buf =
                          gui_handle_image(@, m.s)]
                 ELSE [panes EXCEPT !.status_lbl = m.s]
           /\ applied' = Append(applied, m)
           /\ heap' = heap \ {m.id}
    /\ idle_q' = Tail(idle_q)
    /\ actor' = MainThread
    /\ UNCHANGED <<g_handlers, W, routed, notGui>>

\* ==================================================== the specifications
\* the component at rest, while another one is exercised
QueueIdle ==
    /\ Q = [items |-> "null", capacity |-> 0, head |-> 0, tail |-> 0, count |-> 0]
    /\ slots = <<>>
    /\ out_item = Indeterminate
    /\ ret = FALSE
    /\ logline = <<>>
    /\ op = "none"
    /\ args = <<NULL>>
    /\ lifecycle = "uninit"
    /\ cap0 = 0
    /\ enq_log = <<>>
    /\ deq_log = <<>>

FillIdle ==
    /\ phase = "free"
    /\ fill_rets = <<>>
    /\ drain_rets = <<>>

BitsIdle ==
    /\ P = bit_parser_init(<<>>, 0)
    /\ value = U32Zero
    /\ bop = "none"
    /\ nbits = 0
    /\ pos0 = 0

TripIdle ==
    /\ trip = <<>>

\* the program around the ingestion layer at rest
HostIdle ==
    /\ GpsIdle
    /\ CmdIdle
    /\ RunIdle
    /\ GuiIdle

\* the queue under every sequence of calls
Init ==
    /\ QueueInit
    /\ FillIdle
    /\ BitsIdle
    /\ TripIdle
    /\ RaceIdle
    /\ HostIdle
    /\ NmeaIdle

Next ==
    \/ DoInit
    \/ DoDestroy
    \/ DoEnqueue
    \/ DoDequeue
    \/ DoIsFull
    \/ DoIsEmpty
    \/ DoLogStatus

Spec == Init /\ [][Next]_vars

\* the bit parser under every sequence of calls
InitBits ==
    /\ BitsInit
    /\ QueueIdle
    /\ FillIdle
    /\ TripIdle
    /\ RaceIdle
    /\ HostIdle
    /\ NmeaIdle

NextBits ==
    \/ DoRead
    \/ DoSkip
    \/ DoReset

SpecBits == InitBits /\ [][NextBits]_vars

\* the queue filled up and drained
InitFill ==
    /\ QueueInit
    /\ phase = "create"
    /\ fill_rets = <<>>
    /\ drain_rets = <<>>
    /\ BitsIdle
    /\ TripIdle
    /\ RaceIdle
    /\ HostIdle
    /\ NmeaIdle

NextFill ==
    \/ FillCreate
    \/ FillEnqueue
    \/ FillDequeue
    \/ FillReport

SpecFill == InitFill /\ [][NextFill]_vars

\* a fresh bit parser read to the end, field by field
InitTrip ==
    /\ BitsInit
    /\ TripIdle
    /\ RaceIdle
    /\ HostIdle
    /\ NmeaIdle
    /\ QueueIdle
    /\ FillIdle

NextTrip ==
    \/ TripRead

SpecTrip == InitTrip /\ [][NextTrip]_vars

\* a queue filled until it refuses, and drained until it refuses
InitBack ==
    /\ QueueInit
    /\ Q = ZeroedQueue
    /\ phase = "b_create"
    /\ fill_rets = <<>>
    /\ drain_rets = <<>>
    /\ BitsIdle
    /\ TripIdle
    /\ RaceIdle
    /\ HostIdle
    /\ NmeaIdle

NextBack ==
    \/ BackCreate
    \/ BackFill
    \/ BackRefused
    \/ BackFree
    \/ BackRetry
    \/ BackDrain
    \/ BackStarved
    \/ BackFeed
    \/ BackTake

SpecBack == InitBack /\ [][NextBack]_vars

\* one producer and one consumer on a queue, every call atomic
InitShared ==
    /\ \E c \in 1..MaxCap : QueueCreated(c)
    /\ FillIdle
    /\ BitsIdle
    /\ TripIdle
    /\ RaceIdle
    /\ HostIdle
    /\ NmeaIdle

NextShared ==
    \/ ProducerEnqueue
    \/ ConsumerDequeue

SpecShared == InitShared /\ [][NextShared]_vars

\* one producer and one consumer on a queue, their calls interleaved
\* access by access
NextRace ==
    \/ ProducerCheck
    \/ ProducerCopy
    \/ ProducerTail
    \/ ProducerLoad
    \/ ProducerStore
    \/ ConsumerCheck
    \/ ConsumerCopy
    \/ ConsumerHead
    \/ ConsumerLoad
    \/ ConsumerStore

SpecRace == InitShared /\ [][NextRace]_vars

\* the GPS handler's accumulator under any sequence of lines
InitNmea ==
    /\ NmeaIdle
    /\ QueueIdle
    /\ FillIdle
    /\ BitsIdle
    /\ TripIdle
    /\ RaceIdle
    /\ HostIdle

NextNmea ==
    \/ DoParse

SpecNmea == InitNmea /\ [][NextNmea]_vars

\* the zeroed accumulator given one GGA sentence, for every coordinate token
NextCoord ==
    \/ DoParseCoord

SpecCoord == InitNmea /\ [][NextCoord]_vars

\* one run of the GPS handler
InitGps ==
    /\ G = GpsStart
    /\ rx = <<>>
    /\ stdout = <<>>
    /\ CmdIdle
    /\ RunIdle
    /\ GuiIdle
    /\ QueueIdle
    /\ FillIdle
    /\ BitsIdle
    /\ TripIdle
    /\ RaceIdle
    /\ NmeaIdle

NextGps ==
    \/ GpsOpen
    \/ GpsConfig
    \/ GpsRead
    \/ GpsFinish

SpecGps == InitGps /\ [][NextGps]_vars

\* one process of the remote binary: the command is dispatched and the
\* handler it names runs
InitCmd ==
    /\ QueueIdle
    /\ FillIdle
    /\ BitsIdle
    /\ TripIdle
    /\ RaceIdle
    /\ NmeaIdle
    /\ HostIdle

NextCmd ==
    \/ DoDispatch
    \/ GpsOpen
    \/ GpsConfig
    \/ GpsRead
    \/ GpsFinish

SpecCmd == InitCmd /\ [][NextCmd]_vars

\* one call of the remote command runner beside its subprocess
InitRun ==
    /\ QueueIdle
    /\ FillIdle
    /\ BitsIdle
    /\ TripIdle
    /\ RaceIdle
    /\ NmeaIdle
    /\ HostIdle

NextRun ==
    \/ RunCall
    \/ SubEmit
    \/ SubClose
    \/ SubExit
    \/ RunFgets
    \/ RunEof
    \/ RunClose

SpecRun == InitRun /\ [][NextRun]_vars

\* the activated GUI with one worker at a time, its run delivering any of
\* the lines
InitGui ==
    /\ QueueIdle
    /\ FillIdle
    /\ BitsIdle
    /\ TripIdle
    /\ RaceIdle
    /\ NmeaIdle
    /\ GpsIdle
    /\ CmdIdle
    /\ RunIdle
    /\ GuiActivated

NextRoute ==
    \/ Click({b \in Buttons : b.name = "capture"}, {1})
    \/ WorkerBegin
    \/ WorkerLine(GuiLines)
    \/ WorkerEnd
    \/ GuiDispatch

SpecRoute == InitGui /\ [][NextRoute]_vars

\* the activated GUI with two of the buttons and the workers side by side
NextGui ==
    \/ Click({b \in Buttons : b.name \in {"gps", "capture"}}, Workers)
    \/ WorkerBegin
    \/ WorkerLine(FewLines)
    \/ WorkerEnd
    \/ GuiDispatch

SpecGui == InitGui /\ [][NextGui]_vars

\* ================================================================ claims
Live == lifecycle = "live"

\* C1: after queue_init with capacity c > 0 and any calls of queue_enqueue and
\* queue_dequeue, 0 <= count <= capacity, head < capacity, tail < capacity,
\* and capacity is still c.
C1_Bounds ==
    Live =>
        /\ 0 <= Q.count /\ Q.count <= Q.capacity
        /\ 0 <= Q.head /\ Q.head < Q.capacity
        /\ 0 <= Q.tail /\ Q.tail < Q.capacity
        /\ cap0 > 0 /\ Q.capacity = cap0

\* a full queue whose tail has wrapped around, after a failed enqueue
C1_Witness ==
    /\ Live /\ cap0 = 2
    /\ Q.count = Q.capacity
    /\ Len(enq_log) = 3 /\ Len(deq_log) = 1
    /\ op = "enqueue" /\ ret = FALSE

\* C2: the k-th successful queue_dequeue returns the record (payload and
\* length) passed to the k-th successful queue_enqueue.
C2_Fifo ==
    /\ Len(deq_log) <= Len(enq_log)
    /\ \A k \in DOMAIN deq_log : deq_log[k] = enq_log[k]
    /\ Live => Len(enq_log) - Len(deq_log) = Q.count

\* head and tail have gone round a two-slot array twice, with different records
C2_Witness ==
    /\ Live /\ cap0 = 2
    /\ Len(deq_log) = 4
    /\ deq_log[1] # deq_log[2] /\ deq_log[2] # deq_log[3] /\ deq_log[3] # deq_log[4]
    /\ deq_log[1].data = deq_log[2].data
    /\ op = "dequeue" /\ ret = TRUE

\* C3: queue_enqueue on a full queue returns false and leaves count, head,
\* tail and every stored record unchanged.
C3_EnqueueFull ==
    [][ (op' = "enqueue" /\ args'[1] = QREF /\ Q.count = Q.capacity)
            => (ret' = FALSE /\ Q' = Q /\ slots' = slots
                /\ enq_log' = enq_log /\ out_item' = out_item) ]_vars

\* a valid record was refused by a full queue that holds other records
C3_Witness ==
    /\ Live /\ Q.count = Q.capacity /\ cap0 = 2
    /\ op = "enqueue" /\ args[1] = QREF /\ ~args[2].null
    /\ ret = FALSE
    /\ \A i \in 1..Q.capacity : slots[i] # args[2].obj
    /\ logline = <<"WARN", "Queue is full! Cannot enqueue new item.">>

\* C4: queue_dequeue on an empty queue returns false, leaves count, head and
\* tail unchanged, and does not write the caller's output record.
C4_DequeueEmpty ==
    [][ (op' = "dequeue" /\ args'[1] = QREF /\ Q.count = 0)
            => (ret' = FALSE /\ Q' = Q /\ slots' = slots
                /\ out_item' = out_item /\ deq_log' = deq_log) ]_vars

\* a dequeue with a valid output pointer failed on an empty live queue, the
\* output record still holding an earlier result that the head slot does not
C4_Witness ==
    /\ Live /\ Q.count = 0
    /\ op = "dequeue" /\ args = <<QREF, TRUE>>
    /\ ret = FALSE
    /\ out_item \in Items
    /\ slots[Q.head + 1] # out_item
    /\ logline = <<"WARN", "Queue is empty! Cannot dequeue.">>

\* C5: on a freshly created queue of capacity c > 0, c consecutive enqueues
\* succeed, the (c+1)-th fails, c consecutive dequeues then succeed, and the
\* queue reports empty.
C5_FillDrain ==
    /\ \A k \in DOMAIN fill_rets : fill_rets[k] = (k <= cap0)
    /\ \A k \in DOMAIN drain_rets : drain_rets[k] = TRUE
    /\ phase \in {"report", "done"} => queue_is_empty(QREF)
    /\ phase = "done" => ret = TRUE

\* the scenario ran to its end on a queue of the largest capacity
C5_Witness ==
    /\ phase = "done" /\ cap0 = MaxCap
    /\ Len(fill_rets) = MaxCap + 1 /\ Len(drain_rets) = MaxCap

\* C6, as claimed: queue_init fails, leaving the queue object as it was, when
\* capacity == 0 or the allocation fails; otherwise it returns true with
\* count = head = tail = 0, is_empty true and is_full false.
C6_Original ==
    [][ op' = "init" =>
          IF args'[1] = NULL \/ args'[2] = 0 \/ ~args'[3]
          THEN ret' = FALSE /\ Q' = Q
          ELSE /\ ret' = TRUE
               /\ Q'.count = 0 /\ Q'.head = 0 /\ Q'.tail = 0
               /\ queue_is_empty(QREF)' /\ ~queue_is_full(QREF)' ]_vars

\* C6, amended: a failed allocation sets items to NULL and leaves the other
\* fields as they were; capacity == 0 leaves the whole object as it was.
C6_InitResult ==
    [][ op' = "init" =>
          IF args'[1] = NULL \/ args'[2] = 0
          THEN ret' = FALSE /\ Q' = Q /\ slots' = slots
          ELSE IF ~args'[3]
          THEN ret' = FALSE /\ Q' = [Q EXCEPT !.items = "null"]
          ELSE /\ ret' = TRUE
               /\ Q'.count = 0 /\ Q'.head = 0 /\ Q'.tail = 0
               /\ Q'.capacity = args'[2] /\ Q'.items = "heap"
               /\ queue_is_empty(QREF)' /\ ~queue_is_full(QREF)' ]_vars

\* the allocation failed on a struct taken from the stack: items was set to
\* NULL, the other fields are as they were
C6_Witness ==
    /\ op = "init" /\ ret = FALSE /\ args = <<QREF, MaxCap, FALSE>>
    /\ Q = [StackQueue EXCEPT !.items = "null"]

\* C7: queue_is_empty is true exactly when the reference is null or count == 0,
\* queue_is_full exactly when it is not null and count == capacity, never both
\* for a live queue; neither they nor queue_log_status change the queue.
C7_Predicates ==
    [][ /\ op' = "is_empty" =>
            /\ ret' = (args'[1] = NULL \/ Q.count = 0)
            /\ UNCHANGED <<Q, slots, out_item, logline>>
        /\ op' = "is_full" =>
            /\ ret' = (args'[1] # NULL /\ Q.count = Q.capacity)
            /\ UNCHANGED <<Q, slots, out_item, logline>>
        /\ op' = "log_status" => UNCHANGED <<Q, slots, out_item>>
        /\ (Live /\ Q.capacity > 0) =>
              ~(queue_is_empty(QREF) /\ queue_is_full(QREF)) ]_vars

\* queue_is_empty answered true for a null reference while the queue held records
C7_Witness ==
    /\ op = "is_empty" /\ args = <<NULL>> /\ ret = TRUE
    /\ Live /\ Q.count > 0

\* the field of a successful read, from the claim's formula: bit j of the
\* stream is bit (7 - j mod 8) of byte j / 8
StreamBit(data, j) == (data[(j \div 8) + 1] \div (2 ^ (7 - (j % 8)))) % 2

RECURSIVE SumOver(_, _)
SumOver(f, S) ==
    IF S = {} THEN 0
    ELSE LET x == CHOOSE y \in S : TRUE IN f[x] + SumOver(f, S \ {x})

\* the sum over i of bit(p+i) * 2^(n-1-i), as the two 16-bit halves of the
\* 32-bit result
FieldValue(data, p, n) ==
    LET lows  == {i \in 0..(n - 1) : n - 1 - i < 16}
        highs == {i \in 0..(n - 1) : n - 1 - i >= 16}
    IN  [hi |-> SumOver([i \in highs |-> StreamBit(data, p + i) * 2 ^ (n - 1 - i - 16)], highs),
         lo |-> SumOver([i \in lows |-> StreamBit(data, p + i) * 2 ^ (n - 1 - i)], lows)]

\* v < 2^n, for 1 <= n <= 32
BelowPow(v, n) ==
    IF n <= 16 THEN v.hi = 0 /\ v.lo < 2 ^ n ELSE v.hi < 2 ^ (n - 16)

ReadFails == nbits = 0 \/ nbits > 32 \/ pos0 + nbits > P.bit_length

\* C8: after bit_parser_init and any calls of bit_parser_read, bit_parser_skip
\* and bit_parser_reset, 0 <= bit_pos <= bit_length.
C8_CursorInRange ==
    0 <= P.bit_pos /\ P.bit_pos <= P.bit_length

\* a skip from inside the stream to beyond its end
C8_Witness ==
    /\ bop = "skip" /\ 0 < pos0 /\ pos0 < P.bit_length
    /\ pos0 + nbits > P.bit_length
    /\ nbits < 2 * 8 * BufBytes

\* C9: bit_parser_read fails when num_bits == 0, num_bits > 32 or
\* cursor + num_bits > bit_length, returning 0 with the cursor unchanged; the
\* cursor advances, by exactly num_bits >= 1, if and only if the read succeeded.
C9_ReadFailure ==
    bop = "read" =>
        /\ ReadFails => (value = U32Zero /\ P.bit_pos = pos0)
        /\ ~ReadFails => (P.bit_pos = pos0 + nbits /\ nbits >= 1)
        /\ (P.bit_pos # pos0) <=> ~ReadFails

\* a successful read of an all-zero field, and so a moved cursor
C9_Witness ==
    /\ bop = "read" /\ nbits = 2 /\ pos0 > 0
    /\ P.bit_pos = pos0 + 2
    /\ value = U32Zero

\* C10: a successful bit_parser_read(n) at cursor p returns the sum over
\* i in 0..n-1 of bit(p+i) * 2^(n-1-i), which is below 2^n, and moves the
\* cursor to p + n.
C10_ReadValue ==
    (bop = "read" /\ ~ReadFails) =>
        /\ value = FieldValue(P.data, pos0, nbits)
        /\ BelowPow(value, nbits)
        /\ P.bit_pos = pos0 + nbits

\* a 32-bit field that starts inside a byte and has its top bit set
C10_Witness ==
    /\ bop = "read" /\ nbits = 32 /\ pos0 % 8 # 0
    /\ P.bit_pos = pos0 + 32
    /\ value.hi >= 2 ^ 15 /\ value.lo % 2 = 1

\* C11: reading fields of widths n1..nk in 1..32 with n1 + ... + nk = L from a
\* fresh reader succeeds every time, the fields' bits put end to end are the
\* first L bits of the buffer, and the cursor ends at L.
C11_RoundTrip ==
    /\ Len(trip) = P.bit_pos
    /\ \A j \in 1..Len(trip) : trip[j] = StreamBit(P.data, j - 1)
    /\ bop = "read" => P.bit_pos = pos0 + nbits

\* a stream that ends inside its last byte, read to its end, the last field
\* wider than 16 bits and starting inside a byte
C11_Witness ==
    /\ P.bit_length = 8 * BufBytes - 3
    /\ P.bit_pos = P.bit_length
    /\ bop = "read" /\ nbits > 16 /\ pos0 % 8 # 0 /\ pos0 > 0
    /\ value.hi > 0

\* C12: bit_parser_skip moves the cursor to p + num_bits when that is at most
\* bit_length and to bit_length otherwise, for every p and every num_bits.
C12_SkipClamp ==
    bop = "skip" =>
        P.bit_pos = IF pos0 + nbits <= P.bit_length
                    THEN pos0 + nbits ELSE P.bit_length

\* C13: bit_parser_reset sets the cursor to 0, and no call changes bit_length
\* or the buffer.
C13_Frame ==
    [][ /\ P'.data = P.data
        /\ P'.bit_length = P.bit_length
        /\ bop' = "reset" => P'.bit_pos = 0 ]_vars

\* a reset from inside a non-empty stream
C13_Witness ==
    /\ bop = "reset" /\ pos0 > 0 /\ P.bit_pos = 0
    /\ P.bit_length > 0 /\ Len(P.data) = BufBytes

\* ---------------------------------------------- a sentence, as the claims
\* read it: checksum by bit parity, fields by comma position
HexUpper ==
    <<"0", "1", "2", "3", "4", "5", "6", "7",
      "8", "9", "A", "B", "C", "D", "E", "F">>

HexLower ==
    <<"0", "1", "2", "3", "4", "5", "6", "7",
      "8", "9", "a", "b", "c", "d", "e", "f">>

IsHexChar(c) == \E k \in 1..16 : HexUpper[k] = c \/ HexLower[k] = c

HexCharValue(c) ==
    (CHOOSE k \in 1..16 : HexUpper[k] = c \/ HexLower[k] = c) - 1

\* the index of the first '*' of l, 0 when l has none
FirstStar(l) ==
    IF \E i \in 1..Len(l) : l[i] = "*"
    THEN CHOOSE i \in 1..Len(l) :
             l[i] = "*" /\ \A j \in 1..(i - 1) : l[j] # "*"
    ELSE 0

\* bit k of the XOR of l[a..b] is the parity of the characters with bit k set
ParityXor(l, a, b) ==
    SumOver([k \in 0..7 |->
                (2 ^ k) * (Cardinality({i \in a..b :
                              (Code[l[i]] \div (2 ^ k)) % 2 = 1}) % 2)],
            0..7)

NoDollar(l) == l = <<>> \/ l[1] # "$"

NoStar(l) == FirstStar(l) = 0

BadHex(l) ==
    /\ ~NoStar(l)
    /\ \E d \in 1..2 :
          \/ FirstStar(l) + d > Len(l)
          \/ ~IsHexChar(l[FirstStar(l) + d])

\* l starts with '$' and the XOR of the characters strictly between that '$'
\* and the first '*' is the value of the two hex digits after the '*'
SumMatches(l) ==
    /\ ~NoDollar(l) /\ ~NoStar(l) /\ ~BadHex(l)
    /\ ParityXor(l, 2, FirstStar(l) - 1)
         = 16 * HexCharValue(l[FirstStar(l) + 1])
           + HexCharValue(l[FirstStar(l) + 2])

\* the characters strictly between the '$' and the first '*'
Between(l) == SubSeq(l, 2, FirstStar(l) - 1)

\* the three letters after the two-letter talker
TypeOf(l) ==
    IF Len(Between(l)) >= 5 THEN SubSeq(Between(l), 3, 5) ELSE <<>>

TypeGGA == <<"G", "G", "A">>
TypeRMC == <<"R", "M", "C">>

Commas(b) == {i \in 1..Len(b) : b[i] = ","}

\* the index of the k-th comma of b; 0 for k = 0 and Len(b) + 1 after the last
CommaAt(b, k) ==
    IF k = 0 THEN 0
    ELSE IF k > Cardinality(Commas(b)) THEN Len(b) + 1
    ELSE CHOOSE i \in Commas(b) :
             Cardinality({j \in Commas(b) : j < i}) = k - 1

\* field k: the text between the k-th and the (k+1)-th comma
Field(b, k) == SubSeq(b, CommaAt(b, k) + 1, CommaAt(b, k + 1) - 1)

\* the sentence does not end before field k
Present(b, k) == k <= Cardinality(Commas(b))

\* field k is there and not empty
Supplied(b, k) == Present(b, k) /\ Field(b, k) # <<>>

HasEmptyField(b) == \E k \in 1..Cardinality(Commas(b)) : Field(b, k) = <<>>

\* C14: a line without a leading '$', without '*', with a non-hex character
\* in one of the two positions after '*', or with a checksum that does not
\* match is rejected: the call returns false and leaves every field of the
\* accumulator as it was.
C14_Reject ==
    [][ (\/ NoDollar(line') \/ NoStar(line') \/ BadHex(line')
         \/ ~SumMatches(line'))
        => nret' = FALSE /\ acc' = acc ]_vars

\* a changed checksum digit, rejected on an accumulator that holds a fix
C14_Witness ==
    /\ line = BAD_SUM /\ nret = FALSE
    /\ acc.has_fix /\ acc.sats = 8 /\ acc.lat_deg # 0 /\ acc.time_utc # <<>>

\* C15: the call returns success if and only if the XOR of the characters
\* strictly between the leading '$' and the first '*' equals the value of the
\* two hex digits after '*', whatever the sentence type and fields.
C15_Checksum ==
    nret = SumMatches(line)

\* a sentence accepted on a checksum written with a hex letter
C15_Witness ==
    /\ line = GGA_SHORT /\ nret = TRUE
    /\ acc.time_utc = <<"1", "0", "1", "0", "1", "0">>

\* C16: a checksum-valid sentence whose type is neither GGA nor RMC returns
\* success and leaves every field of the accumulator as it was.
C16_OtherType ==
    [][ (SumMatches(line') /\ TypeOf(line') \notin {TypeGGA, TypeRMC})
        => nret' = TRUE /\ acc' = acc ]_vars

\* a satellite-detail sentence accepted on an accumulator that holds a fix
C16_Witness ==
    /\ line = GSV /\ nret = TRUE
    /\ acc.has_fix /\ acc.fix_quality = 1 /\ acc.sats = 8

\* C17: a checksum-valid GGA sentence overwrites time when the time field is
\* supplied, fix_quality and has_fix = (fix_quality > 0) when the quality
\* field is, sats when the satellite-count field is, latitude and longitude
\* when the four position fields are; a field the sentence ends before keeps
\* the accumulator's previous value.
C17_GgaUpdate ==
    [][ (SumMatches(line') /\ TypeOf(line') = TypeGGA) =>
        LET b == Between(line')
        IN  /\ Supplied(b, 1) =>
                  acc'.time_utc = Take(Field(b, 1), TIME_UTC_SIZE - 1)
            /\ ~Present(b, 1) => acc'.time_utc = acc.time_utc
            /\ Supplied(b, 6) =>
                  /\ acc'.fix_quality = atoi(Field(b, 6))
                  /\ acc'.has_fix = (atoi(Field(b, 6)) > 0)
            /\ ~Present(b, 6) =>
                  /\ acc'.fix_quality = acc.fix_quality
                  /\ acc'.has_fix = acc.has_fix
            /\ Supplied(b, 7) => acc'.sats = atoi(Field(b, 7))
            /\ ~Present(b, 7) => acc'.sats = acc.sats
            /\ (\A k \in 2..5 : Supplied(b, k)) =>
                  /\ acc'.lat_deg
                       = nmea_deg_to_decimal(Field(b, 2), Field(b, 3))
                  /\ acc'.lon_deg
                       = nmea_deg_to_decimal(Field(b, 4), Field(b, 5))
            /\ ~Present(b, 5) =>
                  /\ acc'.lat_deg = acc.lat_deg
                  /\ acc'.lon_deg = acc.lon_deg ]_vars

\* C18: in a checksum-valid GGA or RMC sentence with one or more empty
\* fields, every value is taken from its own comma position, and an
\* accumulator field whose sentence field is empty keeps its previous value.
C18_ByPosition ==
    [][ (/\ SumMatches(line')
         /\ TypeOf(line') \in {TypeGGA, TypeRMC}
         /\ HasEmptyField(Between(line'))) =>
        LET b    == Between(line')
            gga  == TypeOf(line') = TypeGGA
            lat  == IF gga THEN 2 ELSE 3
        IN  /\ acc'.time_utc =
                  IF Supplied(b, 1)
                  THEN Take(Field(b, 1), TIME_UTC_SIZE - 1)
                  ELSE acc.time_utc
            /\ acc'.fix_quality =
                  IF gga /\ Supplied(b, 6)
                  THEN atoi(Field(b, 6)) ELSE acc.fix_quality
            /\ acc'.has_fix =
                  IF gga /\ Supplied(b, 6) THEN atoi(Field(b, 6)) > 0
                  ELSE IF ~gga /\ Field(b, 2) = <<"A">> THEN TRUE
                  ELSE acc.has_fix
            /\ acc'.sats =
                  IF gga /\ Supplied(b, 7)
                  THEN atoi(Field(b, 7)) ELSE acc.sats
            /\ acc'.lat_deg =
                  IF \A k \in lat..(lat + 3) : Supplied(b, k)
                  THEN nmea_deg_to_decimal(Field(b, lat), Field(b, lat + 1))
                  ELSE acc.lat_deg
            /\ acc'.lon_deg =
                  IF \A k \in lat..(lat + 3) : Supplied(b, k)
                  THEN nmea_deg_to_decimal(Field(b, lat + 2),
                                           Field(b, lat + 3))
                  ELSE acc.lon_deg ]_vars

\* C19: a checksum-valid RMC sentence whose status field is anything but the
\* one-character string "A" does not set has_fix.
C19_StatusExact ==
    [][ (/\ SumMatches(line')
         /\ TypeOf(line') = TypeRMC
         /\ Field(Between(line'), 2) # <<"A">>)
        => (acc'.has_fix => acc.has_fix) ]_vars

\* C20: a checksum-valid RMC sentence with status V leaves has_fix as it was,
\* and has_fix goes from true to false only through a checksum-valid GGA
\* sentence whose quality field is <= 0.
C20_FixKept ==
    [][ /\ (/\ SumMatches(line')
            /\ TypeOf(line') = TypeRMC
            /\ Field(Between(line'), 2) = <<"V">>)
           => acc'.has_fix = acc.has_fix
        /\ (acc.has_fix /\ ~acc'.has_fix) =>
              /\ SumMatches(line')
              /\ TypeOf(line') = TypeGGA
              /\ Supplied(Between(line'), 6)
              /\ atoi(Field(Between(line'), 6)) <= 0 ]_vars

\* C21: a checksum-valid RMC sentence decoded after a checksum-valid GGA
\* sentence leaves fix_quality and sats as the GGA sentence set them, while
\* has_fix, time and position are what the RMC sentence supplies: the time
\* field, true for status A, the converted position fields.
C21_BothSentences ==
    [][ (/\ SumMatches(line) /\ TypeOf(line) = TypeGGA
         /\ SumMatches(line') /\ TypeOf(line') = TypeRMC) =>
        LET b == Between(line')
        IN  /\ acc'.fix_quality = acc.fix_quality
            /\ acc'.sats = acc.sats
            /\ acc'.time_utc =
                  IF Supplied(b, 1)
                  THEN Take(Field(b, 1), TIME_UTC_SIZE - 1)
                  ELSE acc.time_utc
            /\ acc'.has_fix = (acc.has_fix \/ Field(b, 2) = <<"A">>)
            /\ (\A k \in 3..6 : Supplied(b, k)) =>
                  /\ acc'.lat_deg
                       = nmea_deg_to_decimal(Field(b, 3), Field(b, 4))
                  /\ acc'.lon_deg
                       = nmea_deg_to_decimal(Field(b, 5), Field(b, 6))
            /\ ~(\A k \in 3..6 : Supplied(b, k)) =>
                  /\ acc'.lat_deg = acc.lat_deg
                  /\ acc'.lon_deg = acc.lon_deg ]_vars

\* the sentence l with its two-letter talker replaced by GP
AsGP(l) == <<"$", "G", "P">> \o SubSeq(l, 4, Len(l))

\* C22: a checksum-valid GGA or RMC sentence is decoded in the same way,
\* with the same accumulator updates, whatever its two-letter talker is.
C22_AnyTalker ==
    [][ (SumMatches(line') /\ TypeOf(line') \in {TypeGGA, TypeRMC})
        => acc' = nmea_decode(AsGP(line'), acc) ]_vars

\* the value of a decimal digit
DigitOf(c) == (CHOOSE k \in 1..10 : HexUpper[k] = c) - 1

\* the number that the digits t[a..b] write
DecimalOf(t, a, b) ==
    SumOver([i \in a..b |-> DigitOf(t[i]) * 10 ^ (b - i)], a..b)

\* the number of characters of t before its decimal point, or before its end
BeforePoint(t) ==
    IF \E i \in 1..Len(t) : t[i] = "."
    THEN (CHOOSE i \in 1..Len(t) :
              t[i] = "." /\ \A j \in 1..(i - 1) : t[j] # ".") - 1
    ELSE Len(t)

\* degrees + minutes / 60 in units of 1/60000 degree: the degrees are the
\* first k - 2 characters, the minutes the next two and up to three decimals
DegreesPlusMinutes(t) ==
    LET k == BeforePoint(t)
        decimals == (k + 2)..Len(t)
    IN  60000 * DecimalOf(t, 1, k - 2)
        + 1000 * DecimalOf(t, k - 1, k)
        + SumOver([i \in decimals |-> DigitOf(t[i]) * 10 ^ (k + 4 - i)],
                  decimals)

ExpectedCoord(t, h) ==
    IF BeforePoint(t) - 2 \notin 1..3 THEN 0
    ELSE IF h = <<"S">> \/ h = <<"W">> THEN 0 - DegreesPlusMinutes(t)
    ELSE DegreesPlusMinutes(t)

\* C23: a coordinate token with k characters before its decimal point (or
\* its end) converts to degrees + minutes / 60, the degrees being its first
\* k - 2 characters and the minutes the rest, negated exactly for hemisphere
\* S or W; when k - 2 is outside 1..3 the result is 0; the decode returns
\* success in both cases.
C23_Coordinate ==
    line # <<>> =>
        /\ nret = TRUE
        /\ acc.lat_deg = ExpectedCoord(Field(Between(line), 2),
                                       Field(Between(line), 3))
        /\ acc.lon_deg = ExpectedCoord(Field(Between(line), 4),
                                       Field(Between(line), 5))

\* 4807.038 W decoded as a longitude: -(48 degrees + 7.038 minutes)
C23_Witness ==
    /\ nret = TRUE
    /\ Field(Between(line), 4) = <<"4", "8", "0", "7", ".", "0", "3", "8">>
    /\ Field(Between(line), 5) = <<"W">>
    /\ acc.lon_deg = 0 - (48 * 60000 + 7038)
    /\ acc.lat_deg = 48 * 60000 + 7000

\* C24: with one producer and one consumer whose calls are atomic, every
\* interleaving keeps 0 <= count <= capacity; the records delivered are the
\* first of the records enqueued, in enqueue order and each once, and the
\* records not yet delivered are the ones the queue holds, in order.
C24_Serialized ==
    /\ 0 <= Q.count /\ Q.count <= Q.capacity
    /\ \A k \in 1..Len(enq_log) : enq_log[k] = Record(k)
    /\ Len(deq_log) <= Len(enq_log)
    /\ \A k \in 1..Len(deq_log) : deq_log[k] = enq_log[k]
    /\ Q.count = Len(enq_log) - Len(deq_log)
    /\ \A j \in 1..Q.count :
          slots[((Q.head + j - 1) % Q.capacity) + 1]
              = enq_log[Len(deq_log) + j]

\* every record delivered through a queue of two slots, which is empty
\* again: the consumer's last call was refused
C24_Witness ==
    /\ cap0 = 2
    /\ Len(deq_log) = MaxSend /\ deq_log = enq_log
    /\ op = "dequeue" /\ ret = FALSE

\* C25: without serialization count can be wrong.  Between calls, count
\* equals the number of records enqueued and not yet dequeued as long as no
\* load of count fell between the other thread's load and store; the witness
\* is a state between calls where, after such an overlap, it does not.
C25_CountExact ==
    (ppc = "idle" /\ cpc = "idle" /\ ~raced)
        => Q.count = Len(enq_log) - Len(deq_log)

\* both threads between calls and count off: a lost update
C25_Witness ==
    /\ ppc = "idle" /\ cpc = "idle"
    /\ raced
    /\ Q.count # Len(enq_log) - Len(deq_log)

\* C26: after an enqueue refused by a full queue, one successful dequeue
\* makes the next enqueue succeed; after a dequeue refused by an empty queue,
\* one successful enqueue makes the next dequeue succeed and return that
\* record.
C26_Recovers ==
    /\ \A k \in DOMAIN fill_rets : fill_rets[k] = (k # cap0 + 1)
    /\ \A k \in DOMAIN drain_rets : drain_rets[k] = (k # cap0 + 2)
    /\ phase \in {"b_retry", "b_starved", "b_feed"} => Len(drain_rets) >= 1
    /\ phase = "b_done" =>
          /\ ret = TRUE
          /\ out_item = enq_log[Len(enq_log)]
          /\ queue_is_empty(QREF)

\* the whole scenario on a queue of two slots: one enqueue and one dequeue
\* were refused, and the last dequeue returned the record enqueued after the
\* refusal, which differs from the one dequeued before it
C26_Witness ==
    /\ phase = "b_done" /\ cap0 = 2
    /\ fill_rets = <<TRUE, TRUE, FALSE, TRUE, TRUE>>
    /\ drain_rets = <<TRUE, TRUE, TRUE, FALSE, TRUE>>
    /\ out_item = enq_log[Len(enq_log)]
    /\ out_item # deq_log[Len(deq_log) - 1]

\* C27: after queue_destroy the queue has items = NULL and capacity = head =
\* tail = count = 0 and holds no storage; every later queue_enqueue and
\* queue_dequeue returns false and changes neither the queue, the storage
\* nor the caller's record; a second queue_destroy changes nothing.
C27_Destroyed ==
    [][ /\ lifecycle' = "destroyed" =>
              /\ Q' = [items |-> "null", capacity |-> 0,
                       head |-> 0, tail |-> 0, count |-> 0]
              /\ slots' = <<>>
        /\ (lifecycle = "destroyed" /\ op' \in {"enqueue", "dequeue"}) =>
              /\ ret' = FALSE
              /\ UNCHANGED <<Q, slots, out_item, enq_log, deq_log>>
        /\ (lifecycle = "destroyed" /\ op' = "destroy") =>
              UNCHANGED <<Q, slots, out_item, logline, lifecycle>> ]_vars

\* a valid record offered to a queue that was destroyed while its head was
\* not at slot 0
C27_Witness ==
    /\ lifecycle = "destroyed" /\ cap0 > 1
    /\ op = "enqueue" /\ args[1] = QREF /\ ~args[2].null
    /\ ret = FALSE
    /\ out_item \in Items
    /\ Q.items = "null" /\ Q.head = 0 /\ slots = <<>>

\* C28: in every state reached from queue_init(c > 0) by enqueues and
\* dequeues, tail = (head + count) mod capacity; the occupied slots are the
\* count slots from head on, holding the undelivered records in order; and
\* head = tail exactly when the queue is empty or full.
C28_RingShape ==
    Live =>
        /\ Q.tail = (Q.head + Q.count) % Q.capacity
        /\ \A j \in 1..Q.count :
              slots[((Q.head + j - 1) % Q.capacity) + 1]
                  = enq_log[Len(deq_log) + j]
        /\ (Q.head = Q.tail) <=> (Q.count = 0 \/ Q.count = Q.capacity)

\* a full queue of three slots whose head and tail meet away from slot 0
C28_Witness ==
    /\ Live /\ cap0 = 3
    /\ Q.count = Q.capacity
    /\ Q.head = Q.tail /\ Q.head = 1

\* C29: bit_parser_skip and bit_parser_read never move the cursor backwards,
\* for every num_bits, also when cursor + num_bits exceeds the largest value
\* of the machine word.
C29_Forward ==
    [][ bop' \in {"read", "skip"} => P'.bit_pos >= P.bit_pos ]_vars

\* a read or a skip of n bits that moved the cursor by n, as the last call,
\* and a read within the stream as the next one
ReadSucceeded == bop = "read" /\ nbits >= 1 /\ P.bit_pos = pos0 + nbits
SkipSucceeded == bop = "skip" /\ nbits >= 1 /\ P.bit_pos = pos0 + nbits
ReadSucceeds ==
    /\ bop' = "read" /\ nbits' >= 1 /\ nbits' <= READ_MAX
    /\ P.bit_pos + nbits' <= P.bit_length

\* C30: read(a) followed by read(b), with a + b <= 32 and both within the
\* stream, returns va and vb with va * 2^b + vb (the a bits of va followed by
\* the b bits of vb) equal to what a single read(a + b) from the first cursor
\* returns, and ends at the same cursor; skip(a) followed by read(b) returns
\* the same vb, the last b bits of that single read; a successful read after
\* a reset returns the field that the buffer, the cursor and num_bits
\* determine.
C30_Compose ==
    [][ /\ ( /\ (ReadSucceeded \/ SkipSucceeded)
              /\ ReadSucceeds
              /\ nbits + nbits' <= READ_MAX ) =>
              \A single \in {ReadLoop(P.data, pos0, nbits + nbits',
                                       0, U32Zero)} :
                  /\ BelowPow(value', nbits')
                  /\ bop = "read" =>
                        BigEndian(value, nbits) \o BigEndian(value', nbits')
                            = BigEndian(single, nbits + nbits')
                  /\ BigEndian(value', nbits')
                        = SubSeq(BigEndian(single, nbits + nbits'),
                                 nbits + 1, nbits + nbits')
                  /\ P'.bit_pos = pos0 + nbits + nbits'
        /\ (bop = "reset" /\ ReadSucceeds) =>
              /\ value' = FieldValue(P.data, 0, nbits')
              /\ P'.bit_pos = nbits' ]_vars

\* the second of two reads that together take the first 32 bits, the second
\* starting inside a byte and crossing two byte boundaries
C30_Witness ==
    /\ bop = "read" /\ pos0 = 13 /\ nbits = 19
    /\ P.bit_pos = 32
    /\ value.hi > 0 /\ value.lo > 0

\* C31: from a zeroed accumulator, after any sequence of nmea_parse_line
\* calls, fix_quality > 0 implies has_fix, so the summary's test
\* (has_fix or fix_quality > 0) is equivalent to has_fix alone.
C31_QualityImpliesFix ==
    /\ acc.fix_quality > 0 => acc.has_fix
    /\ SummaryTest(acc) <=> acc.has_fix

\* a positive quality stored by a fix-data sentence, still in the accumulator
\* after a later recommended-minimum sentence of status V was decoded
C31_Witness ==
    /\ acc.fix_quality > 0 /\ acc.has_fix
    /\ line = RMC_V /\ nret

\* the bytes of s that are no carriage return
StripCR(s) == SelectSeq(s, LAMBDA c : c # CR)

\* the lines of a byte stream: what stands before each line feed, after the
\* one before it, carriage returns left out
Received(s) ==
    LET t      == StripCR(s)
        ends   == {i \in 1..Len(t) : t[i] = LF}
        end(k) == IF k = 0 THEN 0
                  ELSE CHOOSE i \in ends :
                           Cardinality({j \in ends : j < i}) = k - 1
    IN  [k \in 1..Cardinality(ends) |->
            SubSeq(t, end(k - 1) + 1, end(k) - 1)]

\* f is the end of s and shorter than s
ProperSuffix(f, s) ==
    /\ Len(f) < Len(s)
    /\ SubSeq(s, Len(s) - Len(f) + 1, Len(s)) = f

\* ps[j..] is what the lines segs[i..] give the parser: nothing for an empty
\* line, the line itself for a line of at most 255 characters, and for a
\* longer line nothing or one piece of it that is not the whole line
RECURSIVE Delivered(_, _, _, _)
Delivered(segs, ps, i, j) ==
    IF i > Len(segs) THEN j > Len(ps)
    ELSE IF segs[i] = <<>> THEN Delivered(segs, ps, i + 1, j)
    ELSE IF Len(segs[i]) <= LINE_SIZE - 1
    THEN /\ j <= Len(ps)
         /\ ps[j] = segs[i]
         /\ Delivered(segs, ps, i + 1, j + 1)
    ELSE \/ Delivered(segs, ps, i + 1, j)
         \/ /\ j <= Len(ps)
            /\ ProperSuffix(ps[j], segs[i])
            /\ Delivered(segs, ps, i + 1, j + 1)

\* C32: over any byte stream and any chunking of it into reads, carriage
\* returns are dropped, a line feed ends a line, empty lines are not parsed,
\* every non-empty line of at most 255 characters is passed to
\* nmea_parse_line exactly once, complete and in arrival order, the
\* assembled length stays below the size of the line buffer, and a longer
\* line is never passed whole.
C32_LineAssembly ==
    /\ G.llen < LINE_SIZE
    /\ G.peak < LINE_SIZE
    /\ Len(G.line) = G.llen
    /\ Delivered(Received(rx), G.parsed, 1, 1)

\* a line of 255 characters and a sentence ended by CR LF, both parsed
C32_Witness ==
    /\ G.pc = "loop"
    /\ Len(G.parsed) = 2
    /\ Len(G.parsed[1]) = LINE_SIZE - 1
    /\ G.parsed[2] = GGA_FIX
    /\ G.peak = LINE_SIZE - 1
    /\ \E i \in 1..Len(rx) : rx[i] = CR

\* a line of 256 characters, of which nothing reached the parser
C32_WitnessLong ==
    /\ G.pc = "loop"
    /\ \E k \in 1..Len(Received(rx)) : Len(Received(rx)[k]) = LINE_SIZE
    /\ G.parsed = <<>>

\* the texts of the LOG lines printed so far, in order
LogTexts ==
    LET L == SelectSeq(stdout, LAMBDA e : e.tag = "LOG: ")
    IN  [i \in 1..Len(L) |-> L[i].text]

\* the min(n, k) last elements of s, n its length
LastOf(s, k) ==
    SubSeq(s, (IF Len(s) > k THEN Len(s) - k ELSE 0) + 1, Len(s))

\* C33: after n non-empty lines were received, the LOG tail printed at the
\* end consists of exactly the min(n, 5) most recently received lines, in
\* arrival order, for every n >= 0 (including n < 5).
C33_LogTail ==
    (G.pc = "done" /\ G.use_baud # 0) =>
        LogTexts = LastOf(G.parsed, LAST_ROWS)

\* the same for five lines or more, none longer than a row of last[] holds
C33_FullRing ==
    ( /\ G.pc = "done" /\ G.use_baud # 0
      /\ Len(G.parsed) >= LAST_ROWS
      /\ \A j \in 1..Len(G.parsed) : Len(G.parsed[j]) < LAST_SIZE ) =>
        LogTexts = LastOf(G.parsed, LAST_ROWS)

\* ---------------------------------------------------------------------
\* the bytes of s as lines: each ends with its line feed, but for a last
\* one that has none
RECURSIVE SplitLines(_)
SplitLines(s) ==
    IF s = <<>> THEN <<>>
    ELSE LET nl == FirstAt(s, LF, 1)
         IN  IF nl = 0 THEN <<s>>
             ELSE <<Take(s, nl)>> \o SplitLines(Drop(s, nl))

\* what the subprocess has written and fgets has taken
Consumed == Take(sub.emitted, Len(sub.emitted) - Len(pipe))

FwdOf(src) == SelectSeq(fwd, LAMBDA e : e.src = src)

\* C34: run_pacrf_cmd and run_pacrf_cmd_cb forward every line the
\* subprocess has emitted exactly once and in emission order, to stdout or
\* to the callback, and before any line about the exit; the call returns
\* only once the subprocess has exited, with -1 when the subprocess could
\* not be started or closed and with its exit status otherwise, and a
\* status other than zero is reported by one more line after all the
\* output lines.
C34_Streaming ==
    /\ [i \in 1..Len(FwdOf("line")) |-> FwdOf("line")[i].text]
           = SplitLines(Consumed)
    /\ \A i \in 1..Len(fwd) :
          /\ fwd[i].to = IF R.passthrough_stdout THEN "stdout"
                         ELSE "pacrf_on_line_cb"
          /\ fwd[i].src = "line" =>
                \A k \in 1..i : fwd[k].src \in {"exec", "line"}
    /\ R.pc \in {"closing", "returned"} => pipe = <<>>
    /\ R.pc # "returned" => FwdOf("status") = <<>> /\ FwdOf("error") = <<>>
    /\ R.pc = "returned" =>
          /\ sub.state \in {"none", "exited"}
          /\ Len(FwdOf("error")) = (IF R.ret = -1 THEN 1 ELSE 0)
          /\ sub.state = "none" => R.ret = -1
          /\ R.ret # -1 => R.ret = sub.status
          /\ Len(FwdOf("status")) = (IF R.ret \in {0, -1} THEN 0 ELSE 1)
          /\ R.ret \notin {0, -1} => fwd[Len(fwd)].src = "status"

\* the callback has had a line the subprocess wrote in two parts and a
\* last line without a line feed, then the line about the status 1
C34_Witness ==
    /\ R.pc = "returned" /\ R.on_line # NULL
    /\ R.ret = 256
    /\ [i \in 1..Len(FwdOf("line")) |-> FwdOf("line")[i].text]
           = <<OUT_PART \o OUT_REST, OUT_BARE>>
    /\ fwd[Len(fwd)].src = "status"

\* ---------------------------------------------------------------------
\* the handler the table is to give each of its commands but --help
HandlerOf(cmd) ==
    CASE cmd = "--capture" -> "handle_capture"
      [] cmd = "--gps" -> "handle_gps"
      [] cmd = "--stream-start" -> "handle_stream_start"
      [] cmd = "--tone-send" -> "handle_tone_send"
      [] OTHER -> NULL

\* the usage text is the end of what the call printed
UsagePrinted(e) ==
    /\ Len(e.printed) >= Len(print_usage(<<>>))
    /\ SubSeq(e.printed, Len(e.printed) - Len(print_usage(<<>>)) + 1,
              Len(e.printed)) = print_usage(<<>>)

\* C35: dispatch_command prints the usage text and calls no handler for a
\* missing or empty command, for a command that is not in the table and
\* for "--help"; for any other entry of the table it calls that entry's
\* handler exactly once; it never calls through a null handler pointer.
C35_Dispatch ==
    \A i \in 1..Len(dispatched) :
        LET e == dispatched[i]
        IN  /\ \A k \in 1..Len(e.called) : e.called[k] # NULL
            /\ IF e.cmd # "--help" /\ HandlerOf(e.cmd) # NULL
               THEN /\ e.called = <<HandlerOf(e.cmd)>>
                    /\ ~UsagePrinted(e)
               ELSE /\ e.called = <<>>
                    /\ UsagePrinted(e)

\* "--help" has been dispatched, or a name that is a table entry's but for
\* its case, or an entry with a handler
C35_Witness ==
    /\ dispatched # <<>>
    /\ dispatched[1].cmd = "--gps"
    /\ dispatched[1].called = <<"handle_gps">>
    /\ G.pc = "done"

C35_WitnessHelp ==
    /\ dispatched # <<>>
    /\ dispatched[1].cmd = "--help"
    /\ UsagePrinted(dispatched[1])

\* the argument each GUI worker gives run_pacrf_cmd_cb
WorkerArgs == {b.args : b \in Buttons}

\* C36: every command a GUI worker sends to the remote binary is an entry
\* of the dispatch table with a handler that is not null, so that its
\* dispatch calls a handler and does not end in the unknown-command path.
C36_WorkerCommands ==
    \A i \in 1..Len(dispatched) :
        dispatched[i].cmd \in WorkerArgs =>
            /\ \E k \in 1..num_commands :
                  /\ commands[k].name = dispatched[i].cmd
                  /\ commands[k].execute # NULL
            /\ dispatched[i].called # <<>>
            /\ ~UsagePrinted(dispatched[i])

\* ---------------------------------------------------------------------
\* the six prefixes and the handler registered for each
Registered ==
    { [prefix |-> PRE_TERM, fn |-> "oh_term"],
      [prefix |-> PRE_LOG, fn |-> "oh_log"],
      [prefix |-> PRE_IMG, fn |-> "oh_img"],
      [prefix |-> PRE_WARN, fn |-> "oh_warn"],
      [prefix |-> PRE_ERR, fn |-> "oh_err"],
      [prefix |-> PRE_JSON, fn |-> "oh_json"] }

StartsWith(l, p) ==
    /\ Len(l) >= Len(p)
    /\ \A i \in 1..Len(p) : l[i] = p[i]

\* a line has been routed
Routed == routed.posts # <<>>

\* C37: a line that starts with a registered prefix is handed to exactly
\* one handler, the one registered for that prefix, with the prefix
\* removed; a line that starts with no registered prefix goes to the Logs
\* pane as it is; every line is routed to exactly one destination.
C37_Routing ==
    Routed =>
        /\ Len(routed.posts) = 1
        /\ \A e \in Registered :
              StartsWith(routed.line, e.prefix) =>
                  /\ routed.fn = e.fn
                  /\ routed.arg =
                        [i \in 1..(Len(routed.line) - Len(e.prefix)) |->
                            routed.line[i + Len(e.prefix)]]
                  /\ routed.posts[1].kind =
                        (IF e.fn = "oh_term" THEN "GUI_MSG_TERM"
                         ELSE IF e.fn = "oh_img" THEN "GUI_MSG_IMG"
                         ELSE "GUI_MSG_LOG")
        /\ (\A e \in Registered : ~StartsWith(routed.line, e.prefix)) =>
              /\ routed.fn = NULL
              /\ routed.posts[1] = [kind |-> "GUI_MSG_LOG", s |-> routed.line]

\* an IMG: line has been routed to oh_img without its prefix, and the path
\* in it has been applied on the main thread
C37_Witness ==
    /\ routed.line = GUI_IMG
    /\ routed.fn = "oh_img"
    /\ routed.arg = <<" ", "/", "t", "/", "x", " ", LF>>
    /\ \E i \in 1..Len(applied) :
          /\ applied[i].kind = "GUI_MSG_IMG"
          /\ applied[i].s = <<"/", "t", "/", "x">>

\* a line whose prefix lacks its space has gone to the Logs pane whole
C37_WitnessFallback ==
    /\ routed.line = GUI_NOSPACE
    /\ routed.fn = NULL
    /\ \E i \in 1..Len(panes.log_buf) : panes.log_buf[i] = GUI_NOSPACE

\* ---------------------------------------------------------------------
\* the messages posted so far, in the order of their post_gui calls
Posted == applied \o idle_q

\* the places in applied of the messages worker w posted
AppliedOf(w) == {i \in 1..Len(applied) : applied[i].by = w}

StatusApplied == {i \in 1..Len(applied) : applied[i].kind = "GUI_MSG_STATUS"}

\* what holds of the queue, the heap and the panes in every state
C38_State ==
    /\ \A i \in 1..Len(Posted) : Posted[i].id = i
    /\ heap = {idle_q[i].id : i \in 1..Len(idle_q)}
    /\ panes.status_lbl =
          (IF StatusApplied = {} THEN "Ready."
           ELSE applied[CHOOSE i \in StatusApplied :
                            \A j \in StatusApplied : j <= i].s)
    /\ \A w \in Workers, b \in Buttons :
          W[w].button = b.name =>
              \A i \in AppliedOf(w) :
                  LET before == Cardinality({j \in AppliedOf(w) : j < i})
                  IN  /\ before = 0 <=>
                             (applied[i].kind = "GUI_MSG_STATUS"
                              /\ applied[i].s = b.first)
                      /\ (applied[i].kind = "GUI_MSG_STATUS"
                          /\ applied[i].s = b.last) =>
                             /\ W[w].pc = "done"
                             /\ before = W[w].lines + 1

\* C38: the worker threads never touch the panes: every message a worker
\* posts through post_gui is applied by gui_dispatch_to_main on the main
\* thread exactly once and then freed, also with several workers at once;
\* the messages are applied in the order posted, so that the status of a
\* worker's end is applied after all the output lines of its run.
C38_Marshaling ==
    /\ []C38_State
    /\ [][ /\ actor' \in {WorkerThread(w) : w \in Workers} =>
                /\ panes' = panes
                /\ applied' = applied
                /\ heap' = heap \cup {Len(Posted) + 1}
                /\ Len(idle_q') = Len(idle_q) + 1
                /\ SubSeq(idle_q', 1, Len(idle_q)) = idle_q
           /\ applied' # applied =>
                /\ actor' = MainThread
                /\ idle_q # <<>>
                /\ applied' = Append(applied, Head(idle_q))
                /\ idle_q' = Tail(idle_q)
                /\ heap' = heap \ {Head(idle_q).id}
           /\ panes' # panes => actor' = MainThread ]_vars

\* two workers have run side by side, their posts interleaved, and each of
\* the eight messages has been applied and freed
C38_Witness ==
    /\ \A w \in Workers : W[w].pc = "done" /\ W[w].lines = MaxLines
    /\ idle_q = <<>> /\ heap = {}
    /\ Len(applied) = 8
    /\ [i \in 1..4 |-> applied[i].by] = <<1, 2, 2, 1>>
    /\ applied[8].by = 1

====
